---- MODULE Spec2Model ----
(***************************************************************************)
(* Model of Nextarize-Media-Intel.py: the cleaning of an uploaded table,   *)
(* the filter section, the rule-based insight / summary / recommendation   *)
(* generators and the session state of the Streamlit script.               *)
(*                                                                         *)
(* A table is a record [columns, rows]: columns is the set of column       *)
(* names, rows a sequence of functions from the columns to cell values.    *)
(* A timestamp is a natural number; its calendar day is ts \div            *)
(* SlotsPerDay, so that .dt.date / .date() is a real truncation.           *)
(* A call of a function of the program yields a record [exc, value]:       *)
(* exc = "" for a normal return, otherwise the name of the exception.      *)
(* Where the program sorts with pandas' default (unstable) sort, the order *)
(* of equal keys is a nondeterministic choice: such functions are modelled *)
(* as the set of results they can return.                                  *)
(***************************************************************************)
EXTENDS Integers, Sequences, FiniteSets, TLC

VARIABLES
    df,                            \* raw table handed to clean_data
    call,                          \* last call or handler run, and its result
    uploaded_file,                 \* content of the st.file_uploader widget
    cleaned_data,                  \* st.session_state.cleaned_data
    filters,                       \* selections of the filter widgets
    filtered_data,                 \* filtered_data of the current script run
    summary_text,                  \* st.session_state.summary_text
    recommendations_text,          \* st.session_state.recommendations_text
    ai_generated_summary,          \* st.session_state.ai_generated_summary
    ai_generated_recommendations,  \* st.session_state.ai_generated_recommendations
    ai_error,                      \* st.session_state.ai_error
    openrouter_api_key,            \* st.session_state.openrouter_api_key
    button,                        \* the button whose click started the script run
    requests_sent,                 \* requests.post calls since the last user event
    pc,                            \* position of the script run
    shown                          \* what the script run has displayed so far

vars == <<df, call, uploaded_file, cleaned_data, filters, filtered_data,
          summary_text, recommendations_text, ai_generated_summary,
          ai_generated_recommendations, ai_error, openrouter_api_key, button,
          requests_sent, pc, shown>>

sessionVars == <<uploaded_file, cleaned_data, summary_text, recommendations_text,
                 ai_generated_summary, ai_generated_recommendations, ai_error,
                 openrouter_api_key, button, requests_sent, pc, shown>>

----------------------------------------------------------------------------
(* Bounds *)

MaxRawRows == 2        \* rows of a raw table given to clean_data
MaxRawTs == 2          \* largest parseable timestamp in a raw table
MaxRows == 3           \* rows of a dataset given to the generators
MaxTs == 4             \* largest timestamp of a dataset
MaxCountRows == 4      \* rows of a dataset whose shares of a count are at stake
MaxCities == 6         \* locations of a dataset that has more than five of them
SlotsPerDay == 2       \* timestamps per calendar day: .dt.date drops ts % SlotsPerDay

----------------------------------------------------------------------------
(* Values *)

NaN == "NaN"           \* missing categorical cell
NaT == -1              \* pd.NaT: a date that failed to parse
None == [exc |-> "None", value |-> <<>>]

Return(v) == [exc |-> "", value |-> v]
Raise(e) == [exc |-> e, value |-> <<>>]
NoCall == [fn |-> "", arg |-> "", ret |-> None]

\* raw cells of the date and engagements columns as pd.read_csv delivers them
Ts(t) == [k |-> "ts", v |-> t]
Num(n) == [k |-> "num", v |-> n]
Text == [k |-> "text", v |-> 0]
Missing == [k |-> "nan", v |-> 0]

Day(ts) == ts \div SlotsPerDay

Restrict(r, cols) == [c \in cols |-> r[c]]

Min(a, b) == IF a < b THEN a ELSE b

Range(s) == {s[i] : i \in DOMAIN s}

CountIn(s, x) == Cardinality({i \in DOMAIN s : s[i] = x})

RECURSIVE SumSeq(_)
SumSeq(s) == IF s = <<>> THEN 0 ELSE Head(s) + SumSeq(Tail(s))

RECURSIVE Permutations1(_, _)
\* the orders of the positions of idx in which the keys do not decrease: any
\* position holding the least key comes first
Permutations1(idx, keys) ==
    IF idx = {} THEN {<<>>}
    ELSE UNION {{<<i>> \o rest : rest \in Permutations1(idx \ {i}, keys)} :
                i \in {j \in idx : \A k \in idx : keys[j] <= keys[k]}}

\* every order an unstable sort can leave s in: a permutation of s in which
\* the keys do not decrease (ascending) -- ties may come out in any order
\* (keys[i] is the sort key of s[i])
SortOutcomes(s, keys) ==
    {[i \in 1..Len(s) |-> s[p[i]]] : p \in Permutations1(1..Len(s), keys)}

----------------------------------------------------------------------------
(* clean_data *)

\* col.strip().lower().replace(' ', '_') on the headers the model uses
NormalizeName(col) ==
    CASE col = "Date" -> "date"
      [] col = "Engagements" -> "engagements"
      [] col = "Platform" -> "platform"
      [] col = "Sentiment" -> "sentiment"
      [] col = "Location" -> "location"
      [] col = "Media Type" -> "media_type"
      [] OTHER -> col

\* pd.to_datetime(cell, errors='coerce')
to_datetime(cell) == IF cell.k = "ts" THEN cell.v ELSE NaT

\* pd.to_numeric(cell, errors='coerce'): NaN for text and for a missing cell
to_numeric(cell) == IF cell.k = "num" THEN cell ELSE Missing

fillna0_clamp(cell) == IF cell.k = "nan" \/ cell.v < 0 THEN 0 ELSE cell.v

\* Series.fillna(0)
fillna0(cell) == IF cell.k = "nan" THEN 0 ELSE cell.v

\* cleaned_df.columns = [col.strip().lower().replace(' ', '_') ...]
normalize_columns(d) ==
    LET columns == {NormalizeName(c) : c \in d.columns}
        raw(c) == CHOOSE rc \in d.columns : NormalizeName(rc) = c
    IN [columns |-> columns,
        rows |-> [i \in 1..Len(d.rows) |-> [c \in columns |-> d.rows[i][raw(c)]]]]

\* cleaned_df['date'] = pd.to_datetime(cleaned_df['date'], errors='coerce')
parse_dates(rows) == [i \in 1..Len(rows) |-> [rows[i] EXCEPT !["date"] = to_datetime(@)]]

dropna_keep_all(rows) == rows

\* cleaned_df.dropna(subset=['date'])
dropna_date(rows) == SelectSeq(rows, LAMBDA r : r["date"] # NaT)

\* pd.to_numeric(cleaned_df['engagements'], errors='coerce').fillna(0)
fill_engagements(rows) ==
    [i \in 1..Len(rows) |-> [rows[i] EXCEPT !["engagements"] = fillna0(to_numeric(@))]]

sort_values_unsorted(rows) == {rows}

\* cleaned_df.sort_values(by='date').reset_index(drop=True): the orders the
\* default sort can produce
sort_values_date(rows) == SortOutcomes(rows, [i \in 1..Len(rows) |-> rows[i]["date"]])

\* the possible results of clean_data(df)
clean_data(d) ==
    LET named == normalize_columns(d)
        columns == named.columns
        dated == IF "date" \in columns THEN dropna_date(parse_dates(named.rows))
                 ELSE named.rows
        filled == IF "engagements" \in columns THEN fill_engagements(dated) ELSE dated
    IN IF "date" \notin columns
       THEN {Raise("KeyError")}
       ELSE {Return([columns |-> columns, rows |-> s]) : s \in sort_values_date(filled)}

----------------------------------------------------------------------------
(* pandas / Python primitives the generators use *)

Empty_no_columns(data) == data.columns = {}

\* DataFrame.empty: some axis has length 0
Empty(data) == Len(data.rows) = 0 \/ data.columns = {}

\* data[col].tolist()
Column(data, col) == [i \in 1..Len(data.rows) |-> data.rows[i][col]]

\* Series.dropna() of a categorical column
DropNaN(s) == SelectSeq(s, LAMBDA x : x # NaN)

\* Series.count(): the number of non-missing values
Count(s) == Len(DropNaN(s))

RECURSIVE SetToSeq(_)
SetToSeq(S) == IF S = {} THEN <<>>
               ELSE LET x == CHOOSE y \in S : TRUE IN <<x>> \o SetToSeq(S \ {x})

\* the orders in which a descending sort_values can leave the (key, value)
\* items: values do not increase, ties in any order
SortDescOutcomes(items) ==
    SortOutcomes(items, [i \in 1..Len(items) |-> 0 - items[i][2]])

\* Series.value_counts(): <<value, count>> of the non-missing values, most
\* frequent first (value_counts sorts its result with sort_values)
value_counts(s) ==
    LET present == DropNaN(s)
        keys == SetToSeq(Range(present))
    IN SortDescOutcomes([i \in 1..Len(keys) |-> <<keys[i], CountIn(present, keys[i])>>])

\* value_counts().get(v, 0)
CountOf(s, v) == CountIn(DropNaN(s), v)

RECURSIVE InsertDesc(_, _)
InsertDesc(sorted, item) ==
    IF sorted = <<>> THEN <<item>>
    ELSE IF Head(sorted)[2] >= item[2] THEN <<Head(sorted)>> \o InsertDesc(Tail(sorted), item)
    ELSE <<item>> \o sorted

RECURSIVE py_sorted_desc(_)
\* sorted(items, key=lambda item: item[1], reverse=True): Python's sort is
\* stable, equal items keep their order
py_sorted_desc(items) ==
    IF items = <<>> THEN <<>>
    ELSE InsertDesc(py_sorted_desc(SubSeq(items, 1, Len(items) - 1)), items[Len(items)])

\* data.groupby(keycol)['engagements'].sum(): <<key, sum>> per non-missing key
groupby_sum(data, keycol) ==
    LET keys == SetToSeq(Range(DropNaN(Column(data, keycol))))
        rowsOf(k) == SelectSeq(data.rows, LAMBDA r : r[keycol] = k)
    IN [i \in 1..Len(keys) |->
            <<keys[i], SumSeq([j \in 1..Len(rowsOf(keys[i])) |->
                                  rowsOf(keys[i])[j]["engagements"]])>>]

RECURSIVE Ascending(_)
\* the elements of a set of numbers in ascending order (sort_index)
Ascending(S) == IF S = {} THEN <<>>
                ELSE LET m == CHOOSE x \in S : \A y \in S : x <= y
                     IN <<m>> \o Ascending(S \ {m})

\* data.groupby(data['date'].dt.date)['engagements'].sum().sort_index():
\* <<day, sum>> per calendar day present, ascending by day
engagements_by_date(data) ==
    LET days == Ascending({Day(data.rows[i]["date"]) : i \in 1..Len(data.rows)})
        rowsOf(d) == SelectSeq(data.rows, LAMBDA r : Day(r["date"]) = d)
    IN [i \in 1..Len(days) |->
            <<days[i], SumSeq([j \in 1..Len(rowsOf(days[i])) |->
                                  rowsOf(days[i])[j]["engagements"]])>>]

\* Series.idxmax() / idxmin(): the first label holding the extreme value
idxmax(series) ==
    series[CHOOSE i \in DOMAIN series :
              /\ \A j \in DOMAIN series : series[j][2] <= series[i][2]
              /\ \A j \in 1..(i - 1) : series[j][2] < series[i][2]][1]
idxmin(series) ==
    series[CHOOSE i \in DOMAIN series :
              /\ \A j \in DOMAIN series : series[j][2] >= series[i][2]
              /\ \A j \in 1..(i - 1) : series[j][2] > series[i][2]][1]
series_max(series) == CHOOSE v \in {series[i][2] : i \in DOMAIN series} :
                         \A j \in DOMAIN series : series[j][2] <= v
series_min(series) == CHOOSE v \in {series[i][2] : i \in DOMAIN series} :
                         \A j \in DOMAIN series : series[j][2] >= v

\* a head that keeps the whole series
head_all(series, n) == series

\* Series.head(n)
head(series, n) == SubSeq(series, 1, Min(n, Len(series)))

\* f'{c / t * 100:.1f}': tenths of a percent, rounded half to even
Pct1(c, t) ==
    LET q == (1000 * c) \div t
        r == (1000 * c) % t
    IN IF 2 * r > t \/ (2 * r = t /\ q % 2 = 1) THEN q + 1 ELSE q

\* f'{p / n:.2f}': hundredths, rounded half to even
Ratio2(p, n) ==
    LET q == (100 * p) \div n
        r == (100 * p) % n
    IN IF 2 * r > n \/ (2 * r = n /\ q % 2 = 1) THEN q + 1 ELSE q

\* one sentence of the output: its template, the emphasised labels and figure
\* (a date label is the number of its day)
Msg(t, a, b, n) == [t |-> t, a |-> a, b |-> b, c |-> "", n |-> n, d |-> 0]
Msg3(t, a, b, c) == [t |-> t, a |-> a, b |-> b, c |-> c, n |-> 0, d |-> 0]
DayMsg(t, day, n) == [t |-> t, a |-> "", b |-> "", c |-> "", n |-> n, d |-> day]
Say(t) == Msg(t, "", "", 0)

----------------------------------------------------------------------------
(* generate_insights *)

ChartTypes == {"sentiment", "engagement_trend", "platform_engagements",
               "media_type", "top_locations"}

\* chart_type == 'sentiment' (no check that the column exists)
insights_sentiment(data) ==
    IF "sentiment" \notin data.columns THEN {Raise("KeyError")}
    ELSE LET col == Column(data, "sentiment")
             total_sentiments == Count(col)
             positive_count == CountOf(col, "Positive")
             negative_count == CountOf(col, "Negative")
         IN {LET sorted_sentiments == py_sorted_desc(sentiment_counts)
                 dominant ==
                    IF sorted_sentiments # <<>>
                    THEN <<Msg("dominant_sentiment", sorted_sentiments[1][1], "",
                               Pct1(sorted_sentiments[1][2], total_sentiments))>>
                    ELSE <<>>
                 second ==
                    IF Len(sorted_sentiments) > 1
                    THEN <<Msg("second_sentiment", sorted_sentiments[2][1], "", 0)>>
                    ELSE <<>>
                 ratio ==
                    IF negative_count > 0 /\ positive_count > 0
                    THEN <<Msg("sentiment_ratio", "", "",
                               Ratio2(positive_count, negative_count))>>
                    ELSE IF total_sentiments > 0 THEN <<Say("sentiment_mixed")>>
                    ELSE <<>>
             IN Return(dominant \o second \o ratio) :
             sentiment_counts \in value_counts(col)}

insights_trend_finding_ge(first_engagement, last_engagement) ==
    IF 10 * last_engagement >= 11 * first_engagement THEN Say("trend_increasing")
    ELSE IF 10 * last_engagement <= 9 * first_engagement THEN Say("trend_decreasing")
    ELSE Say("trend_stable")

\* if last_engagement > first_engagement * 1.1 ... elif ... < ... * 0.9 ... else
\* (day totals are integers: the comparison with first * 1.1 is 10 * last
\* against 11 * first)
insights_trend_finding(first_engagement, last_engagement) ==
    IF 10 * last_engagement > 11 * first_engagement THEN Say("trend_increasing")
    ELSE IF 10 * last_engagement < 9 * first_engagement THEN Say("trend_decreasing")
    ELSE Say("trend_stable")

\* chart_type == 'engagement_trend'
insights_engagement_trend(data) ==
    IF "date" \notin data.columns \/ "engagements" \notin data.columns
    THEN {Return(<<Say("missing_date_or_engagements")>>)}
    ELSE LET by_date == engagements_by_date(data)
         IN IF by_date # <<>>
            THEN {Return(
                    <<DayMsg("peak_engagement", idxmax(by_date), series_max(by_date)),
                      DayMsg("lowest_engagement", idxmin(by_date), series_min(by_date))>>
                    \o (IF Len(by_date) > 1
                        THEN <<insights_trend_finding(by_date[1][2],
                                                      by_date[Len(by_date)][2])>>
                        ELSE <<>>))}
            ELSE {Return(<<Say("trend_insufficient")>>)}

\* a platform branch that names the lowest platform from two platforms on
insights_platform_lowest_of_two(data) ==
    IF "platform" \notin data.columns \/ "engagements" \notin data.columns
    THEN {Return(<<Say("missing_platform_or_engagements")>>)}
    ELSE {IF platform_engagements # <<>>
          THEN Return(
                <<Msg("leading_platform", platform_engagements[1][1], "",
                      platform_engagements[1][2])>>
                \o (IF Len(platform_engagements) > 1
                    THEN <<Msg("platform_gap", "", "",
                               platform_engagements[1][2] - platform_engagements[2][2])>>
                    ELSE <<>>)
                \o (IF Len(platform_engagements) > 1
                    THEN <<Msg("lowest_platform",
                               platform_engagements[Len(platform_engagements)][1], "", 0)>>
                    ELSE <<>>))
          ELSE Return(<<Say("limited_platform_diversity")>>) :
          platform_engagements \in SortDescOutcomes(groupby_sum(data, "platform"))}

\* chart_type == 'platform_engagements'
insights_platform_engagements(data) ==
    IF "platform" \notin data.columns \/ "engagements" \notin data.columns
    THEN {Return(<<Say("missing_platform_or_engagements")>>)}
    ELSE {IF platform_engagements # <<>>
          THEN Return(
                <<Msg("leading_platform", platform_engagements[1][1], "",
                      platform_engagements[1][2])>>
                \o (IF Len(platform_engagements) > 1
                    THEN <<Msg("platform_gap", "", "",
                               platform_engagements[1][2] - platform_engagements[2][2])>>
                    ELSE <<>>)
                \o (IF Len(platform_engagements) > 2
                    THEN <<Msg("lowest_platform",
                               platform_engagements[Len(platform_engagements)][1], "", 0)>>
                    ELSE <<>>))
          ELSE Return(<<Say("limited_platform_diversity")>>) :
          platform_engagements \in SortDescOutcomes(groupby_sum(data, "platform"))}

\* chart_type == 'media_type'
insights_media_type(data) ==
    IF "media_type" \notin data.columns
    THEN {Return(<<Say("missing_media_type")>>)}
    ELSE LET col == Column(data, "media_type")
             total_media == Count(col)
         IN {LET sorted_media_types == py_sorted_desc(media_type_counts)
             IN Return(
                  (IF sorted_media_types # <<>>
                   THEN <<Msg("top_media_type", sorted_media_types[1][1], "",
                              Pct1(sorted_media_types[1][2], total_media))>>
                   ELSE <<>>)
                  \o (IF Len(sorted_media_types) > 1
                      THEN <<Msg("second_media_type", sorted_media_types[2][1], "", 0)>>
                      ELSE <<>>)
                  \o (IF total_media > 0
                      THEN <<Msg("distinct_media_types", "", "", Len(media_type_counts))>>
                      ELSE <<Say("no_media_type_data")>>)) :
             media_type_counts \in value_counts(col)}

\* chart_type == 'top_locations'
insights_top_locations(data) ==
    IF "location" \notin data.columns \/ "engagements" \notin data.columns
    THEN {Return(<<Say("missing_location_or_engagements")>>)}
    ELSE LET total_engagements == SumSeq(Column(data, "engagements"))
         IN {LET top_5_locations == head(location_engagements, 5)
                 top_5_total_engagements ==
                    SumSeq([i \in 1..Len(top_5_locations) |-> top_5_locations[i][2]])
             IN IF top_5_locations # <<>>
                THEN Return(
                      <<Msg("top_location", top_5_locations[1][1], "",
                            top_5_locations[1][2])>>
                      \o (IF total_engagements > 0
                          THEN <<Msg("top_5_share", "", "",
                                     Pct1(top_5_total_engagements, total_engagements))>>
                          ELSE <<>>)
                      \o (IF Len(top_5_locations) > 1
                          THEN <<Msg("other_locations", top_5_locations[2][1],
                                     top_5_locations[Min(2, Len(top_5_locations) - 1) + 1][1],
                                     0)>>
                          ELSE <<>>))
                ELSE Return(<<Say("limited_location_data")>>) :
             location_engagements \in SortDescOutcomes(groupby_sum(data, "location"))}

\* the possible results of generate_insights(data, chart_type)
generate_insights(data, chart_type) ==
    IF Empty(data) THEN {Return(<<Say("no_data_insights")>>)}
    ELSE CASE chart_type = "sentiment" -> insights_sentiment(data)
           [] chart_type = "engagement_trend" -> insights_engagement_trend(data)
           [] chart_type = "platform_engagements" -> insights_platform_engagements(data)
           [] chart_type = "media_type" -> insights_media_type(data)
           [] chart_type = "top_locations" -> insights_top_locations(data)
           [] OTHER -> {Return(<<>>)}

----------------------------------------------------------------------------
(* generate_summary: the sets below hold the bullets (none or one) a section
   of the function can append *)

\* # Sentiment Summary
summary_sentiment(data) ==
    IF "sentiment" \in data.columns
    THEN {LET total_sentiments ==
                 SumSeq([i \in 1..Len(sentiment_counts) |-> sentiment_counts[i][2]])
              sorted_sentiments == py_sorted_desc(sentiment_counts)
          IN IF sorted_sentiments # <<>>
             THEN <<Msg("summary_sentiment", sorted_sentiments[1][1],
                        IF Len(sorted_sentiments) > 1 THEN sorted_sentiments[2][1] ELSE "",
                        Pct1(sorted_sentiments[1][2], total_sentiments))>>
             ELSE <<>> :
          sentiment_counts \in value_counts(Column(data, "sentiment"))}
    ELSE {<<Say("summary_sentiment_unavailable")>>}

\* a classification that takes the thresholds themselves as a change
summary_trend_class_ge(first_engagement, last_engagement) ==
    IF 10 * last_engagement >= 11 * first_engagement THEN "increasing"
    ELSE IF 10 * last_engagement <= 9 * first_engagement THEN "decreasing"
    ELSE "stable"

\* trend = "stable" / "increasing" / "decreasing"
summary_trend_class(first_engagement, last_engagement) ==
    IF 10 * last_engagement > 11 * first_engagement THEN "increasing"
    ELSE IF 10 * last_engagement < 9 * first_engagement THEN "decreasing"
    ELSE "stable"

\* # Engagement Trend Summary
summary_trend(data) ==
    IF "date" \in data.columns /\ "engagements" \in data.columns
    THEN LET by_date == engagements_by_date(data)
         IN IF Len(by_date) > 1
            THEN {<<Msg("summary_trend",
                        summary_trend_class(by_date[1][2], by_date[Len(by_date)][2]),
                        "", 0)>>}
            ELSE IF Len(by_date) = 1
            THEN {<<DayMsg("summary_trend_single_day", by_date[1][1], by_date[1][2])>>}
            ELSE {<<Say("summary_trend_undetermined")>>}
    ELSE {<<Say("summary_trend_unavailable")>>}

\* # Platform Summary
summary_platform(data) ==
    IF "platform" \in data.columns /\ "engagements" \in data.columns
    THEN {IF platform_engagements # <<>>
          THEN <<Msg("summary_platform", platform_engagements[1][1],
                     IF Len(platform_engagements) > 1 THEN platform_engagements[2][1]
                     ELSE "", 0)>>
          ELSE <<>> :
          platform_engagements \in SortDescOutcomes(groupby_sum(data, "platform"))}
    ELSE {<<Say("summary_platform_unavailable")>>}

\* # Media Type Summary
summary_media_type(data) ==
    IF "media_type" \in data.columns
    THEN {LET total_media == Count(Column(data, "media_type"))
              sorted_media_types == py_sorted_desc(media_type_counts)
          IN IF sorted_media_types # <<>>
             THEN <<Msg("summary_media_type", sorted_media_types[1][1], "",
                        Pct1(sorted_media_types[1][2], total_media))>>
             ELSE <<>> :
          media_type_counts \in value_counts(Column(data, "media_type"))}
    ELSE {<<Say("summary_media_type_unavailable")>>}

\* # Location Summary
summary_location(data) ==
    IF "location" \in data.columns /\ "engagements" \in data.columns
    THEN {LET top_3_locations == head(location_engagements, 3)
          IN IF top_3_locations # <<>>
             THEN <<Msg3("summary_location", top_3_locations[1][1],
                         IF Len(top_3_locations) > 1 THEN top_3_locations[2][1] ELSE "",
                         IF Len(top_3_locations) > 2 THEN top_3_locations[3][1] ELSE "")>>
             ELSE <<>> :
          location_engagements \in SortDescOutcomes(groupby_sum(data, "location"))}
    ELSE {<<Say("summary_location_unavailable")>>}

generate_summary_early_return(data) ==
    IF Empty(data) THEN {Return(<<Say("no_data_summary")>>)}
    ELSE IF "media_type" \notin data.columns
    THEN {Return(<<Say("summary_intro"), Say("summary_media_type_unavailable")>>)}
    ELSE {Return(<<Say("summary_intro")>> \o b1 \o b2 \o b3 \o b4 \o b5) :
             b1 \in summary_sentiment(data), b2 \in summary_trend(data),
             b3 \in summary_platform(data), b4 \in summary_media_type(data),
             b5 \in summary_location(data)}

\* the possible results of generate_summary(data): the introduction, then the
\* bullets in the order the sections append them
generate_summary(data) ==
    IF Empty(data) THEN {Return(<<Say("no_data_summary")>>)}
    ELSE {Return(<<Say("summary_intro")>> \o b1 \o b2 \o b3 \o b4 \o b5) :
             b1 \in summary_sentiment(data), b2 \in summary_trend(data),
             b3 \in summary_platform(data), b4 \in summary_media_type(data),
             b5 \in summary_location(data)}

----------------------------------------------------------------------------
(* generate_recommendations *)

\* a sentiment rule whose first case looks at the negative share alone
recommend_sentiment_negative_only(data) ==
    IF "sentiment" \in data.columns
    THEN LET col == Column(data, "sentiment")
             total_sentiments == Count(col)
             positive == IF total_sentiments > 0 THEN CountOf(col, "Positive") ELSE 0
             negative == IF total_sentiments > 0 THEN CountOf(col, "Negative") ELSE 0
         IN IF 10 * negative > 3 * total_sentiments
            THEN {<<Say("rec_sentiment_management")>>}
            ELSE IF 10 * positive > 7 * total_sentiments
            THEN {<<Say("rec_sentiment_amplify")>>}
            ELSE {<<Say("rec_sentiment_maintain")>>}
    ELSE {<<Say("rec_sentiment_unavailable")>>}

\* # Sentiment-based recommendations (x / total > 0.3 is 10 * x > 3 * total)
recommend_sentiment(data) ==
    IF "sentiment" \in data.columns
    THEN LET col == Column(data, "sentiment")
             total_sentiments == Count(col)
             positive == IF total_sentiments > 0 THEN CountOf(col, "Positive") ELSE 0
             negative == IF total_sentiments > 0 THEN CountOf(col, "Negative") ELSE 0
         IN IF 10 * negative > 3 * total_sentiments /\ 2 * positive < total_sentiments
            THEN {<<Say("rec_sentiment_management")>>}
            ELSE IF 10 * positive > 7 * total_sentiments
            THEN {<<Say("rec_sentiment_amplify")>>}
            ELSE {<<Say("rec_sentiment_maintain")>>}
    ELSE {<<Say("rec_sentiment_unavailable")>>}

\* a trend section whose inner if has an else for the stable trend
recommend_trend_stable_message(data) ==
    IF "date" \in data.columns /\ "engagements" \in data.columns
    THEN LET by_date == engagements_by_date(data)
             first_engagement == by_date[1][2]
             last_engagement == by_date[Len(by_date)][2]
         IN IF Len(by_date) > 1
            THEN IF 10 * last_engagement < 9 * first_engagement
                 THEN {<<Say("rec_trend_decline")>>}
                 ELSE IF 10 * last_engagement > 11 * first_engagement
                 THEN {<<Say("rec_trend_scale")>>}
                 ELSE {<<Say("rec_trend_insufficient")>>}
            ELSE {<<Say("rec_trend_insufficient")>>}
    ELSE {<<Say("rec_trend_unavailable")>>}

\* # Engagement Trend recommendations
recommend_trend(data) ==
    IF "date" \in data.columns /\ "engagements" \in data.columns
    THEN LET by_date == engagements_by_date(data)
             first_engagement == by_date[1][2]
             last_engagement == by_date[Len(by_date)][2]
         IN IF Len(by_date) > 1
            THEN IF 10 * last_engagement < 9 * first_engagement
                 THEN {<<Say("rec_trend_decline")>>}
                 ELSE IF 10 * last_engagement > 11 * first_engagement
                 THEN {<<Say("rec_trend_scale")>>}
                 ELSE {<<>>}
            ELSE {<<Say("rec_trend_insufficient")>>}
    ELSE {<<Say("rec_trend_unavailable")>>}

\* a platform rule that triggers from twice the second platform on
recommend_platform_ge(data) ==
    IF "platform" \in data.columns /\ "engagements" \in data.columns
    THEN {IF /\ Len(platform_engagements) > 1
             /\ platform_engagements[1][2] >=
                   2 * (IF platform_engagements[2][2] > 0 THEN platform_engagements[2][2]
                        ELSE 1)
          THEN <<Msg("rec_platform_diversify", platform_engagements[1][1],
                     platform_engagements[2][1], 0)>>
          ELSE IF platform_engagements # <<>> THEN <<Say("rec_platform_optimize")>>
          ELSE <<>> :
          platform_engagements \in SortDescOutcomes(groupby_sum(data, "platform"))}
    ELSE {<<Say("rec_platform_unavailable")>>}

\* # Platform-based recommendations
recommend_platform(data) ==
    IF "platform" \in data.columns /\ "engagements" \in data.columns
    THEN {IF /\ Len(platform_engagements) > 1
             /\ platform_engagements[1][2] >
                   2 * (IF platform_engagements[2][2] > 0 THEN platform_engagements[2][2]
                        ELSE 1)
          THEN <<Msg("rec_platform_diversify", platform_engagements[1][1],
                     platform_engagements[2][1], 0)>>
          ELSE IF platform_engagements # <<>> THEN <<Say("rec_platform_optimize")>>
          ELSE <<>> :
          platform_engagements \in SortDescOutcomes(groupby_sum(data, "platform"))}
    ELSE {<<Say("rec_platform_unavailable")>>}

\* # Media Type recommendations
recommend_media_type(data) ==
    IF "media_type" \in data.columns
    THEN {LET total_media == Count(Column(data, "media_type"))
              sorted_media_types == py_sorted_desc(media_type_counts)
          IN IF /\ Len(sorted_media_types) > 1
                /\ 10 * sorted_media_types[1][2] > 7 * total_media
             THEN <<Msg("rec_media_diversify", sorted_media_types[1][1], "", 0)>>
             ELSE IF media_type_counts # <<>> THEN <<Say("rec_media_analyze")>>
             ELSE <<>> :
          media_type_counts \in value_counts(Column(data, "media_type"))}
    ELSE {<<Say("rec_media_unavailable")>>}

\* location_engagements.iloc[0] / total_engagements_all > 0.5, a numpy
\* division: x / 0 is inf, -inf or nan, never an exception
share_exceeds_half(top, total) ==
    IF total > 0 THEN 2 * top > total
    ELSE IF total < 0 THEN 2 * top < total
    ELSE top > 0

\* # Location recommendations
recommend_location(data) ==
    IF "location" \in data.columns /\ "engagements" \in data.columns
    THEN LET total_engagements_all == SumSeq(Column(data, "engagements"))
         IN {IF /\ location_engagements # <<>>
                /\ share_exceeds_half(location_engagements[1][2], total_engagements_all)
             THEN <<Msg("rec_location_campaign", location_engagements[1][1], "", 0)>>
             ELSE IF location_engagements # <<>> THEN <<Say("rec_location_analyze")>>
             ELSE <<>> :
             location_engagements \in SortDescOutcomes(groupby_sum(data, "location"))}
    ELSE {<<Say("rec_location_unavailable")>>}

\* the possible results of generate_recommendations(data)
generate_recommendations(data) ==
    IF Empty(data) THEN {Return(<<Say("no_data_recommendations")>>)}
    ELSE {Return(<<Say("recommendations_intro")>> \o b1 \o b2 \o b3 \o b4 \o b5) :
             b1 \in recommend_sentiment(data), b2 \in recommend_trend(data),
             b3 \in recommend_platform(data), b4 \in recommend_media_type(data),
             b5 \in recommend_location(data)}

----------------------------------------------------------------------------
(* Defaults of the variables a specification does not use *)

NoTable == [columns |-> {}, rows |-> <<>>]
NoFilters == [platform |-> "All", sentiment |-> "All", media_type |-> "All",
              location |-> "All", start_date |-> 0, end_date |-> 0]

\* a text of the session is the sequence of its sentences; "" is the empty one
NoText == <<>>

SessionIdle ==
    /\ uploaded_file = None
    /\ cleaned_data = None
    /\ summary_text = NoText
    /\ recommendations_text = NoText
    /\ ai_generated_summary = NoText
    /\ ai_generated_recommendations = NoText
    /\ ai_error = ""
    /\ openrouter_api_key = ""
    /\ button = ""
    /\ requests_sent = 0
    /\ pc = "idle"
    /\ shown = {}

----------------------------------------------------------------------------
(* SpecClean: clean_data applied to every raw table of the bounded set *)

RawHeaders == {"Date", "Engagements", "Platform"}
RawDateCells == {Ts(t) : t \in 0..MaxRawTs} \cup {Text, Missing}
RawEngNums == {-5, 0, 7}
RawEngCells == {Num(n) : n \in RawEngNums} \cup {Text, Missing}
RawFullRows == [Date : RawDateCells, Engagements : RawEngCells, Platform : {"Twitter"}]

InitClean ==
    /\ \E H \in (SUBSET RawHeaders) \ {{}} : \E n \in 0..MaxRawRows :
          \E s \in [1..n -> {Restrict(r, H) : r \in RawFullRows}] :
             df = [columns |-> H, rows |-> s]
    /\ call = NoCall
    /\ filters = NoFilters
    /\ filtered_data = NoTable
    /\ SessionIdle

CallCleanData ==
    /\ call = NoCall
    /\ \E r \in clean_data(df) : call' = [fn |-> "clean_data", arg |-> "", ret |-> r]
    /\ UNCHANGED <<df, filters, filtered_data, sessionVars>>

NextClean == CallCleanData

SpecClean == InitClean /\ [][NextClean]_vars

----------------------------------------------------------------------------
(* SpecGen: the generators applied to every dataset of the bounded set *)

AllColumns == {"date", "platform", "sentiment", "location", "engagements", "media_type"}

Sentiments == {"Positive", "Negative", "Neutral"}
Platforms == {"Facebook", "Instagram", "Twitter"}
MediaTypes == {"image", "video"}
Locations == {"NY", "LA", "SF"}
EngValues == {0, 9, 10, 11}      \* day totals on and around the 0.9 / 1.1 thresholds
GroupEngValues == {0, 10}

DefaultRow == [date |-> 0, platform |-> "Twitter", sentiment |-> "Positive",
               location |-> "NY", engagements |-> 10, media_type |-> "image"]

\* rows that vary the columns of one dimension and keep the default elsewhere
TrendRows == {[DefaultRow EXCEPT !.date = t, !.engagements = e] :
                 t \in 0..MaxTs, e \in EngValues}
SentimentRows == {[DefaultRow EXCEPT !.sentiment = x] : x \in Sentiments \cup {NaN}}
PlatformRows == {[DefaultRow EXCEPT !.platform = x, !.engagements = e] :
                    x \in Platforms \cup {NaN}, e \in GroupEngValues}
MediaRows == {[DefaultRow EXCEPT !.media_type = x] : x \in MediaTypes \cup {NaN}}
LocationRows == {[DefaultRow EXCEPT !.location = x, !.engagements = e] :
                    x \in Locations \cup {NaN}, e \in GroupEngValues}
\* the three rows of the scenario of the specification's section 8
ScenarioRows ==
    {[date |-> 0, platform |-> "Twitter", sentiment |-> "Positive", location |-> "NY",
      engagements |-> 100, media_type |-> "image"],
     [date |-> 2, platform |-> "Twitter", sentiment |-> "Negative", location |-> "LA",
      engagements |-> 50, media_type |-> "video"],
     [date |-> 4, platform |-> "Facebook", sentiment |-> "Positive", location |-> "NY",
      engagements |-> 200, media_type |-> "image"]}

\* the cleaned table is sorted by date and the filters keep its order
SortedByDate(rows) == \A i \in 1..(Len(rows) - 1) : rows[i]["date"] <= rows[i + 1]["date"]

\* DataFrame without the columns of missing
DropColumns(data, missing) ==
    [columns |-> data.columns \ missing,
     rows |-> [i \in 1..Len(data.rows) |-> Restrict(data.rows[i], data.columns \ missing)]]

Families == {SentimentRows, PlatformRows, MediaRows, LocationRows}

\* one row per city, for the datasets with more locations than the five
\* that head(5) keeps; no two cities have the same engagements, the cities of
\* leading have ten more than the others
Cities == <<"NY", "LA", "SF", "Austin", "Boston", "Miami", "Omaha", "Tampa">>
CityRows(leading) ==
    [i \in 1..MaxCities |->
        [DefaultRow EXCEPT !.location = Cities[i],
                           !.engagements = IF i \in leading THEN 10 + i ELSE i]]

CountFamilies == {SentimentRows, MediaRows}

\* a dataset: up to MaxRows rows of one family with every column (the rows of
\* the trend family at distinct timestamps; up to MaxCountRows rows of the
\* families of the sentiment and media type shares; MaxCities rows of as
\* many locations), or rows of the scenario with any columns missing
InitGen ==
    /\ \E n \in 0..MaxRows :
         \/ \E s \in [1..n -> TrendRows] :
               /\ \A i \in 1..(n - 1) : s[i]["date"] < s[i + 1]["date"]
               /\ filtered_data = [columns |-> AllColumns, rows |-> s]
         \/ \E family \in Families : \E s \in [1..n -> family] :
               /\ SortedByDate(s)
               /\ filtered_data = [columns |-> AllColumns, rows |-> s]
         \/ \E family \in CountFamilies : \E s \in [1..(n + MaxCountRows - MaxRows) -> family] :
               /\ n = MaxRows
               /\ filtered_data = [columns |-> AllColumns, rows |-> s]
         \/ \E leading \in SUBSET (1..MaxCities) :
               /\ n = MaxRows
               /\ filtered_data = [columns |-> AllColumns, rows |-> CityRows(leading)]
         \/ \E s \in [1..n -> ScenarioRows] :
               /\ SortedByDate(s)
               /\ \E missing \in (SUBSET AllColumns) \ {AllColumns} :
                     filtered_data = DropColumns([columns |-> AllColumns, rows |-> s], missing)
    /\ call = NoCall
    /\ df = NoTable
    /\ filters = NoFilters
    /\ SessionIdle

CallGenerateInsights ==
    /\ call = NoCall
    /\ \E chart_type \in ChartTypes : \E r \in generate_insights(filtered_data, chart_type) :
          call' = [fn |-> "generate_insights", arg |-> chart_type, ret |-> r]
    /\ UNCHANGED <<df, filters, filtered_data, sessionVars>>

CallGenerateSummary ==
    /\ call = NoCall
    /\ \E r \in generate_summary(filtered_data) :
          call' = [fn |-> "generate_summary", arg |-> "", ret |-> r]
    /\ UNCHANGED <<df, filters, filtered_data, sessionVars>>

CallGenerateRecommendations ==
    /\ call = NoCall
    /\ \E r \in generate_recommendations(filtered_data) :
          call' = [fn |-> "generate_recommendations", arg |-> "", ret |-> r]
    /\ UNCHANGED <<df, filters, filtered_data, sessionVars>>

NextGen == CallGenerateInsights \/ CallGenerateSummary \/ CallGenerateRecommendations

SpecGen == InitGen /\ [][NextGen]_vars

----------------------------------------------------------------------------
(* Claims about clean_data (SpecClean) *)

CleanCalled == call.fn = "clean_data"
CleanReturned == CleanCalled /\ call.ret.exc = ""
CleanRows == call.ret.value.rows

SameBag(s, t) == \A x \in Range(s) \cup Range(t) : CountIn(s, x) = CountIn(t, x)

\* the raw rows whose Date cell parses, in the order of the file
RawValidRows == SelectSeq(df.rows, LAMBDA r : r["Date"].k = "ts")

\* C1: for every raw table, clean_data returns a table that holds exactly the
\* rows whose date parsed (none kept with a defaulted date), sorted ascending
\* by date.
C1_CleanValidDatesSorted ==
    CleanCalled =>
        /\ call.ret.exc = ""
        /\ \A i \in DOMAIN CleanRows : CleanRows[i]["date"] # NaT
        /\ SameBag([i \in DOMAIN CleanRows |-> CleanRows[i]["date"]],
                   [i \in DOMAIN RawValidRows |-> RawValidRows[i]["Date"].v])
        /\ \A i \in 1..(Len(CleanRows) - 1) : CleanRows[i]["date"] <= CleanRows[i + 1]["date"]

\* the part of C1 the code keeps: the same, for a raw table with a date column
C1_WithDateColumn == "Date" \in df.columns => C1_CleanValidDatesSorted

C1_WithDateColumnWitness ==
    /\ CleanReturned
    /\ Len(CleanRows) = 2 /\ Len(df.rows) = 2
    /\ df.rows[1]["Date"].v > df.rows[2]["Date"].v

\* C2 as stated: with an engagements column, every engagements value of the
\* cleaned table is a number and none is negative.
C2_CleanEngagementsNonNegative ==
    (CleanReturned /\ "engagements" \in call.ret.value.columns) =>
        \A i \in DOMAIN CleanRows : CleanRows[i]["engagements"] \in Nat

\* C2 (amended): with an engagements column, every engagements value of the
\* cleaned table is a number: 0 where the raw cell was missing or unparsable,
\* and the raw number itself, negative or not, where it parsed.
C2_CleanEngagementsFilled ==
    (CleanReturned /\ "engagements" \in call.ret.value.columns) =>
        /\ \A i \in DOMAIN CleanRows : CleanRows[i]["engagements"] \in Int
        /\ SameBag([i \in DOMAIN CleanRows |->
                        <<CleanRows[i]["date"], CleanRows[i]["engagements"]>>],
                   [i \in DOMAIN RawValidRows |->
                        <<RawValidRows[i]["Date"].v,
                          IF RawValidRows[i]["Engagements"].k = "num"
                          THEN RawValidRows[i]["Engagements"].v ELSE 0>>])

C2_Witness ==
    /\ CleanReturned /\ "engagements" \in call.ret.value.columns
    /\ \E i \in DOMAIN RawValidRows : RawValidRows[i]["Engagements"].k # "num"
    /\ \E i \in DOMAIN CleanRows : CleanRows[i]["engagements"] < 0

----------------------------------------------------------------------------
(* Claims about the generators (SpecGen) *)

InsightsCalled(chart_type) == call.fn = "generate_insights" /\ call.arg = chart_type
NonEmptyData == Len(filtered_data.rows) > 0 /\ filtered_data.columns # {}

\* the columns a category or a dimension needs
Required(chart_type) ==
    CASE chart_type \in {"sentiment"} -> {"sentiment"}
      [] chart_type \in {"engagement_trend", "trend"} -> {"date", "engagements"}
      [] chart_type \in {"platform_engagements", "platform"} -> {"platform", "engagements"}
      [] chart_type \in {"media_type"} -> {"media_type"}
      [] chart_type \in {"top_locations", "location"} -> {"location", "engagements"}

MissingColumnMessage(chart_type) ==
    CASE chart_type = "sentiment" -> "missing_sentiment"
      [] chart_type = "engagement_trend" -> "missing_date_or_engagements"
      [] chart_type = "platform_engagements" -> "missing_platform_or_engagements"
      [] chart_type = "media_type" -> "missing_media_type"
      [] chart_type = "top_locations" -> "missing_location_or_engagements"

\* C3: generate_insights on a non-empty dataset that lacks a column the
\* category requires does not raise and returns exactly one string, the one
\* naming the absent column; and a column a category does not require changes
\* nothing in that category's result.
C3_MissingColumnOneMessage ==
    (call.fn = "generate_insights" /\ NonEmptyData) =>
        /\ ~(Required(call.arg) \subseteq filtered_data.columns) =>
              call.ret = Return(<<Say(MissingColumnMessage(call.arg))>>)
        /\ \A c \in filtered_data.columns \ Required(call.arg) :
              filtered_data.columns # {c} =>
                 call.ret \in generate_insights(DropColumns(filtered_data, {c}), call.arg)

\* the part of C3 the code keeps: the four categories other than sentiment
C3_ExceptSentiment == call.arg # "sentiment" => C3_MissingColumnOneMessage

\* C4: on a dataset with zero rows each generation function returns its
\* no-data message and nothing else, whatever the category and the columns.
C4_EmptyNoData ==
    (call.fn \in {"generate_insights", "generate_summary", "generate_recommendations"}
     /\ Len(filtered_data.rows) = 0) =>
        call.ret = Return(<<Say(CASE call.fn = "generate_insights" -> "no_data_insights"
                                  [] call.fn = "generate_summary" -> "no_data_summary"
                                  [] OTHER -> "no_data_recommendations")>>)

C4_Witness ==
    /\ InsightsCalled("sentiment")
    /\ Len(filtered_data.rows) = 0
    /\ "sentiment" \notin filtered_data.columns
    /\ call.ret.exc = "" /\ Len(call.ret.value) = 1

\* the calendar days of the dataset and the total of a day, from the rows
DataDays == {Day(filtered_data.rows[i]["date"]) : i \in 1..Len(filtered_data.rows)}
DayTotal(day) ==
    LET rowsOf == SelectSeq(filtered_data.rows, LAMBDA r : Day(r["date"]) = day)
    IN SumSeq([i \in 1..Len(rowsOf) |-> rowsOf[i]["engagements"]])
FirstDayTotal == DayTotal(CHOOSE d \in DataDays : \A e \in DataDays : d <= e)
LastDayTotal == DayTotal(CHOOSE d \in DataDays : \A e \in DataDays : d >= e)
TrendColumns == {"date", "engagements"} \subseteq filtered_data.columns
ExpectedTrend ==
    IF 10 * LastDayTotal > 11 * FirstDayTotal THEN "increasing"
    ELSE IF 10 * LastDayTotal < 9 * FirstDayTotal THEN "decreasing"
    ELSE "stable"

\* C5: with two or more distinct days the trend finding of generate_insights
\* and the trend bullet of generate_summary are decided by the first day's and
\* the last day's totals alone: increasing iff last > 1.1 x first, decreasing
\* iff last < 0.9 x first, stable otherwise (so stable at exactly 1.1 x and
\* exactly 0.9 x).
C5_TrendClassification ==
    (NonEmptyData /\ TrendColumns /\ Cardinality(DataDays) >= 2) =>
        /\ InsightsCalled("engagement_trend") =>
              /\ call.ret.exc = "" /\ Len(call.ret.value) = 3
              /\ call.ret.value[3] =
                    Say(CASE ExpectedTrend = "increasing" -> "trend_increasing"
                          [] ExpectedTrend = "decreasing" -> "trend_decreasing"
                          [] OTHER -> "trend_stable")
        /\ call.fn = "generate_summary" =>
              /\ call.ret.exc = ""
              /\ Msg("summary_trend", ExpectedTrend, "", 0) \in Range(call.ret.value)
              /\ \A i \in DOMAIN call.ret.value :
                    call.ret.value[i].t = "summary_trend" =>
                       call.ret.value[i].a = ExpectedTrend

C5_Witness ==
    /\ InsightsCalled("engagement_trend")
    /\ NonEmptyData /\ TrendColumns /\ Cardinality(DataDays) = 3
    /\ FirstDayTotal > 0
    /\ 10 * LastDayTotal = 11 * FirstDayTotal
    /\ call.ret.value[3] = Say("trend_stable")

\* C6: for a non-empty dataset whose rows all fall on one calendar day,
\* generate_insights(data, 'engagement_trend') contains the "insufficient
\* data points" finding.
C6_SingleDayInsufficient ==
    (InsightsCalled("engagement_trend") /\ NonEmptyData /\ TrendColumns
     /\ Cardinality(DataDays) = 1) =>
        /\ call.ret.exc = ""
        /\ Say("trend_insufficient") \in Range(call.ret.value)

Dimensions == <<"sentiment", "trend", "platform", "media_type", "location">>

\* the dimension a bullet of the summary or of the recommendations speaks of
BulletDimension(t) ==
    CASE t \in {"summary_sentiment", "summary_sentiment_unavailable",
                "rec_sentiment_management", "rec_sentiment_amplify",
                "rec_sentiment_maintain", "rec_sentiment_unavailable"} -> "sentiment"
      [] t \in {"summary_trend", "summary_trend_single_day", "summary_trend_undetermined",
                "summary_trend_unavailable", "rec_trend_decline", "rec_trend_scale",
                "rec_trend_insufficient", "rec_trend_unavailable"} -> "trend"
      [] t \in {"summary_platform", "summary_platform_unavailable",
                "rec_platform_diversify", "rec_platform_optimize",
                "rec_platform_unavailable"} -> "platform"
      [] t \in {"summary_media_type", "summary_media_type_unavailable",
                "rec_media_diversify", "rec_media_analyze",
                "rec_media_unavailable"} -> "media_type"
      [] t \in {"summary_location", "summary_location_unavailable",
                "rec_location_campaign", "rec_location_analyze",
                "rec_location_unavailable"} -> "location"
      [] OTHER -> ""

UnavailableMessage(fn, dim) ==
    CASE fn = "generate_summary" /\ dim = "sentiment" -> "summary_sentiment_unavailable"
      [] fn = "generate_summary" /\ dim = "trend" -> "summary_trend_unavailable"
      [] fn = "generate_summary" /\ dim = "platform" -> "summary_platform_unavailable"
      [] fn = "generate_summary" /\ dim = "media_type" -> "summary_media_type_unavailable"
      [] fn = "generate_summary" /\ dim = "location" -> "summary_location_unavailable"
      [] fn = "generate_recommendations" /\ dim = "sentiment" -> "rec_sentiment_unavailable"
      [] fn = "generate_recommendations" /\ dim = "trend" -> "rec_trend_unavailable"
      [] fn = "generate_recommendations" /\ dim = "platform" -> "rec_platform_unavailable"
      [] fn = "generate_recommendations" /\ dim = "media_type" -> "rec_media_unavailable"
      [] fn = "generate_recommendations" /\ dim = "location" -> "rec_location_unavailable"

\* the bullets of a document that speak of dimension dim, in order
DimensionBullets(doc, dim) == SelectSeq(doc, LAMBDA m : BulletDimension(m.t) = dim)

\* C7: for every non-empty dataset generate_summary emits, after the
\* introduction, exactly five bullets, one per dimension in the order
\* sentiment, trend, platform, media type, location: the dimension's finding
\* when its columns exist, its unavailable message otherwise.
C7_SummaryFiveBullets ==
    (call.fn = "generate_summary" /\ NonEmptyData) =>
        /\ call.ret.exc = ""
        /\ Len(call.ret.value) = 6
        /\ call.ret.value[1] = Say("summary_intro")
        /\ \A k \in 1..5 :
              /\ BulletDimension(call.ret.value[k + 1].t) = Dimensions[k]
              /\ (call.ret.value[k + 1].t = UnavailableMessage("generate_summary", Dimensions[k]))
                    <=> ~(Required(Dimensions[k]) \subseteq filtered_data.columns)

\* the part of C7 the code keeps: every column that exists holds a value
C7_NoColumnAllMissing ==
    (\A c \in filtered_data.columns \ {"date", "engagements"} :
        \E i \in 1..Len(filtered_data.rows) : filtered_data.rows[i][c] # NaN)
    => C7_SummaryFiveBullets

GenerateFn(fn, data) ==
    IF fn = "generate_summary" THEN generate_summary(data) ELSE generate_recommendations(data)

\* C8: in generate_summary and generate_recommendations a missing column
\* touches only the dimensions that need it: without the column each of them
\* yields its unavailable message, and every other dimension yields the bullet
\* it yields with the column present.
C8_MissingColumnOwnDimension ==
    (call.fn \in {"generate_summary", "generate_recommendations"} /\ NonEmptyData) =>
        LET with == GenerateFn(call.fn, filtered_data)
        IN \A c \in filtered_data.columns : filtered_data.columns # {c} =>
            LET without == GenerateFn(call.fn, DropColumns(filtered_data, {c}))
            IN \A k \in 1..5 :
                  LET bulletsWith == {DimensionBullets(q.value, Dimensions[k]) : q \in with}
                      bulletsWithout ==
                         {DimensionBullets(r.value, Dimensions[k]) : r \in without}
                  IN IF c \in Required(Dimensions[k])
                     THEN bulletsWithout =
                             {<<Say(UnavailableMessage(call.fn, Dimensions[k]))>>}
                     ELSE /\ DimensionBullets(call.ret.value, Dimensions[k])
                                \in bulletsWithout
                          /\ bulletsWithout = bulletsWith

C8_Witness ==
    /\ call.fn = "generate_summary"
    /\ filtered_data.columns = AllColumns \ {"media_type"}
    /\ Len(filtered_data.rows) = 3
    /\ call.ret.exc = "" /\ Len(call.ret.value) = 6
    /\ call.ret.value[5] = Say("summary_media_type_unavailable")
    /\ call.ret.value[6].t = "summary_location"

----------------------------------------------------------------------------
(* The data filtering section of the script (lines 448-502) *)

\* bound of the datasets the filter section is run on
MaxFilterRows == 2

\* ['All'] + sorted(cleaned_data[col].dropna().unique().tolist()), or ['All']
\* when the column is absent: the options of one selectbox
unique_options(data, col) ==
    IF col \in data.columns THEN {"All"} \cup Range(DropNaN(Column(data, col)))
                            ELSE {"All"}

\* cleaned_data['date'].min().date(), or the fallback date
min_date_data(data) ==
    IF "date" \in data.columns /\ Len(data.rows) > 0
    THEN Day(CHOOSE t \in Range(Column(data, "date")) :
                 \A u \in Range(Column(data, "date")) : t <= u)
    ELSE 0

\* cleaned_data['date'].max().date(), or the fallback date
max_date_data(data) ==
    IF "date" \in data.columns /\ Len(data.rows) > 0
    THEN Day(CHOOSE t \in Range(Column(data, "date")) :
                 \A u \in Range(Column(data, "date")) : t >= u)
    ELSE Day(MaxTs)

\* the values the four selectboxes and the two date inputs can hold
Selections(data) ==
    [platform : unique_options(data, "platform"),
     sentiment : unique_options(data, "sentiment"),
     media_type : unique_options(data, "media_type"),
     location : unique_options(data, "location"),
     start_date : min_date_data(data)..max_date_data(data),
     end_date : min_date_data(data)..max_date_data(data)]

\* an equality filter that lets the rows without a value through
filter_equals_or_missing(rows, col, selected) ==
    IF selected # "All"
    THEN SelectSeq(rows, LAMBDA r : r[col] = selected \/ r[col] = NaN)
    ELSE rows

\* if x_filter != 'All': filtered_data = filtered_data[filtered_data[col] == x_filter]
filter_equals(rows, col, selected) ==
    IF selected # "All" THEN SelectSeq(rows, LAMBDA r : r[col] = selected) ELSE rows

\* a date filter that compares the timestamp with midnight of the two dates
filter_dates_midnight(columns, rows, start_date, end_date) ==
    IF "date" \in columns
    THEN SelectSeq(rows, LAMBDA r : /\ r["date"] >= start_date * SlotsPerDay
                                    /\ r["date"] <= end_date * SlotsPerDay)
    ELSE rows

\* the date filter: .dt.date >= start_date_filter and .dt.date <= end_date_filter
filter_dates(columns, rows, start_date, end_date) ==
    IF "date" \in columns
    THEN SelectSeq(rows, LAMBDA r : /\ Day(r["date"]) >= start_date
                                    /\ Day(r["date"]) <= end_date)
    ELSE rows

\* filtered_data of lines 481-497
apply_filters(data, f) ==
    LET by_platform == filter_equals(data.rows, "platform", f.platform)
        by_sentiment == filter_equals(by_platform, "sentiment", f.sentiment)
        by_media_type == filter_equals(by_sentiment, "media_type", f.media_type)
        by_location == filter_equals(by_media_type, "location", f.location)
    IN  [columns |-> data.columns,
         rows |-> filter_dates(data.columns, by_location, f.start_date, f.end_date)]

\* the section runs when the session holds a non-empty dataset; the rest of
\* the script is inside the same if, so that without a dataset the run ends
FilterSection ==
    /\ pc = "filter"
    /\ IF cleaned_data # None /\ ~Empty(cleaned_data)
       THEN /\ \E f \in Selections(cleaned_data) :
                 /\ filters' = f
                 /\ filtered_data' = apply_filters(cleaned_data, f)
            /\ pc' = "analysis"
            /\ button' = button
       ELSE /\ UNCHANGED <<filters, filtered_data>>
            /\ pc' = "idle"
            /\ button' = ""
    /\ UNCHANGED <<df, call, uploaded_file, cleaned_data, summary_text,
                   recommendations_text, ai_generated_summary,
                   ai_generated_recommendations, ai_error, openrouter_api_key,
                   requests_sent, shown>>

----------------------------------------------------------------------------
(* SpecFilter: the filter section run on every cleaned dataset of the *)
(* bounded set, with every selection of the widgets                  *)

FilterRows == {[DefaultRow EXCEPT !.date = t, !.platform = x] :
                  t \in 0..MaxTs, x \in {"Facebook", "Twitter", NaN}}
FilterMissing == {{}, {"platform"}, {"sentiment", "media_type", "location"}}

InitFilter ==
    /\ \E n \in 0..MaxFilterRows : \E s \in [1..n -> FilterRows] :
          /\ SortedByDate(s)
          /\ \E missing \in FilterMissing :
                cleaned_data = DropColumns([columns |-> AllColumns, rows |-> s], missing)
    /\ pc = "filter"
    /\ df = NoTable
    /\ call = NoCall
    /\ filters = NoFilters
    /\ filtered_data = NoTable
    /\ uploaded_file = None
    /\ summary_text = NoText
    /\ recommendations_text = NoText
    /\ ai_generated_summary = NoText
    /\ ai_generated_recommendations = NoText
    /\ ai_error = ""
    /\ openrouter_api_key = ""
    /\ button = ""
    /\ requests_sent = 0
    /\ shown = {}

NextFilter == FilterSection

SpecFilter == InitFilter /\ [][NextFilter]_vars

----------------------------------------------------------------------------
(* Claims about the filter section *)

Filtered == pc = "analysis"

\* every criterion unconstrained: the defaults of the six widgets
Unconstrained(data) ==
    [platform |-> "All", sentiment |-> "All", media_type |-> "All", location |-> "All",
     start_date |-> min_date_data(data), end_date |-> max_date_data(data)]

\* C9: filtering the cleaned dataset with platform, sentiment, media type and
\* location all 'All', start date the minimum date and end date the maximum
\* date returns the cleaned dataset: the same rows in the same order.
C9_UnconstrainedFilterIdentity ==
    (Filtered /\ filters = Unconstrained(cleaned_data)) => filtered_data = cleaned_data

\* two rows on different days, the first without a platform, the last one
\* later than midnight of the maximum date, kept by the unconstrained filter
C9_Witness ==
    /\ Filtered /\ filters = Unconstrained(cleaned_data)
    /\ Len(cleaned_data.rows) = 2
    /\ "platform" \in cleaned_data.columns
    /\ cleaned_data.rows[1]["platform"] = NaN
    /\ Day(cleaned_data.rows[1]["date"]) < Day(cleaned_data.rows[2]["date"])
    /\ cleaned_data.rows[2]["date"] % SlotsPerDay # 0
    /\ filtered_data = cleaned_data

----------------------------------------------------------------------------
(* The script run of a session (lines 379-847): a user event starts a run, *)
(* the run passes the upload section, the filter section and the analysis  *)
(* section, and ends at the display section or at a st.rerun()             *)

\* pd.read_csv(uploaded_file): the table of a readable file, an exception
\* for a malformed one
read_csv(file) == IF file.readable THEN Return(file.table) ELSE Raise("ParserError")

\* an except branch that leaves the dataset of the session as it was
upload_except_keep(prior) == prior

\* the dataset the except branch of the upload section leaves in the session
upload_except(prior) == None

\* st.rerun(): the script starts again from its first line
Rerun ==
    /\ pc' = "upload"
    /\ df' = NoTable
    /\ filters' = NoFilters
    /\ filtered_data' = NoTable
    /\ shown' = {}

\* the variables of a script run start afresh
StartRun ==
    /\ Rerun
    /\ call' = NoCall

\* call records the run of the upload section: arg is cleaned_data as it was
\* before the section ran, ret the outcome of the try block
UploadSection ==
    /\ pc = "upload"
    /\ pc' = "filter"
    /\ IF uploaded_file = None
       THEN UNCHANGED <<df, call, cleaned_data, summary_text, recommendations_text,
                        ai_generated_summary, ai_generated_recommendations,
                        ai_error, shown>>
       ELSE LET read == read_csv(uploaded_file) IN
            IF read.exc # ""
            THEN /\ cleaned_data' = upload_except(cleaned_data)
                 /\ shown' = shown \cup {"upload_error"}
                 /\ call' = [fn |-> "upload_section", arg |-> cleaned_data, ret |-> read]
                 /\ UNCHANGED <<df, summary_text, recommendations_text,
                                ai_generated_summary, ai_generated_recommendations,
                                ai_error>>
            ELSE /\ df' = read.value
                 /\ \E cleaned \in clean_data(read.value) :
                       /\ call' = [fn |-> "upload_section", arg |-> cleaned_data,
                                   ret |-> cleaned]
                       /\ IF cleaned.exc # ""
                          THEN /\ cleaned_data' = upload_except(cleaned_data)
                               /\ shown' = shown \cup {"upload_error"}
                               /\ UNCHANGED <<summary_text, recommendations_text,
                                              ai_generated_summary,
                                              ai_generated_recommendations, ai_error>>
                          ELSE /\ cleaned_data' = cleaned.value
                               /\ shown' = shown \cup {"upload_success"}
                               /\ summary_text' = NoText
                               /\ recommendations_text' = NoText
                               /\ ai_generated_summary' = NoText
                               /\ ai_generated_recommendations' = NoText
                               /\ ai_error' = ""
    /\ UNCHANGED <<uploaded_file, filters, filtered_data, openrouter_api_key, button,
                   requests_sent>>

\* a handler of the local analysis that leaves the AI texts in the session
OurModelHandler_keep_ai ==
    /\ pc = "analysis"
    /\ button = "our_model"
    /\ UNCHANGED <<ai_generated_summary, ai_generated_recommendations>>
    /\ ai_error' = ""
    /\ \E s \in generate_summary(filtered_data) : summary_text' = s.value
    /\ \E r \in generate_recommendations(filtered_data) : recommendations_text' = r.value
    /\ call' = [fn |-> "our_model_handler", arg |-> "", ret |-> Return(<<>>)]
    /\ button' = ""
    /\ Rerun
    /\ UNCHANGED <<uploaded_file, cleaned_data, openrouter_api_key, requests_sent>>

\* "Generate Analysis (Our Model)" returned True in this run (lines 660-666);
\* call records that the handler ran
OurModelHandler ==
    /\ pc = "analysis"
    /\ button = "our_model"
    /\ ai_generated_summary' = NoText
    /\ ai_generated_recommendations' = NoText
    /\ ai_error' = ""
    /\ \E s \in generate_summary(filtered_data) : summary_text' = s.value
    /\ \E r \in generate_recommendations(filtered_data) : recommendations_text' = r.value
    /\ call' = [fn |-> "our_model_handler", arg |-> "", ret |-> Return(<<>>)]
    /\ button' = ""
    /\ Rerun
    /\ UNCHANGED <<uploaded_file, cleaned_data, openrouter_api_key, requests_sent>>

\* the models offered by the "Select AI Model" selectbox (lines 786-796)
open_router_models ==
    {"google/gemini-pro", "openai/gpt-3.5-turbo", "openai/gpt-4o",
     "anthropic/claude-3-opus", "mistralai/mistral-7b-instruct",
     "google/gemini-1.5-flash-pro", "google/gemini-1.5-pro-latest",
     "mistralai/mixtral-8x7b-instruct", "perplexity/llama-3-sonar-large-32k-online"}

\* st.session_state.selected_openrouter_model: set at line 394, and assigned
\* again only by line 797 once open_router_models.index(...) has returned
selected_openrouter_model == "gemini-2.0-flash"

\* the values the "OpenRouter API Key" text input can hold
ApiKeys == {"", "sk-or-v1"}

\* what lines 799-835 show of the session
Displayed ==
    (IF ai_error # "" THEN {"ai_error"} ELSE {})
    \cup (IF summary_text # NoText THEN {"summary_text"} ELSE {})
    \cup (IF recommendations_text # NoText THEN {"recommendations_text"} ELSE {})
    \cup (IF ai_generated_summary # NoText THEN {"ai_generated_summary"} ELSE {})
    \cup (IF ai_generated_recommendations # NoText
          THEN {"ai_generated_recommendations"} ELSE {})

\* no button was clicked: the run goes on below the buttons (lines 775-847).
\* It reads the API key (line 783), then looks the selected model up among
\* the offered ones (line 797): list.index raises ValueError for a model
\* that is not offered, which ends the run before anything is displayed.
\* The variables of the run are gone when it has ended
DisplaySection ==
    /\ pc = "analysis"
    /\ button = ""
    /\ \E key \in ApiKeys : openrouter_api_key' = key
    /\ shown' = IF selected_openrouter_model \in open_router_models
                THEN shown \cup Displayed
                ELSE shown \cup {"ValueError"}
    /\ pc' = "idle"
    /\ df' = NoTable
    /\ filters' = NoFilters
    /\ filtered_data' = NoTable
    /\ UNCHANGED <<call, uploaded_file, cleaned_data, summary_text,
                   recommendations_text, ai_generated_summary,
                   ai_generated_recommendations, ai_error, button, requests_sent>>

----------------------------------------------------------------------------
(* The "Generate Analysis (OpenRouter AI)" handler (lines 669-773) *)

MaxAiLines == 2        \* non-empty lines of the text the remote service returns

\* a line of the returned text: the words it mentions ("summary" in
\* line.lower()), the word it starts with, and whether it starts with "- "
AiLine(text, mentions, starts, bullet) ==
    [text |-> text, mentions |-> mentions, starts |-> starts, bullet |-> bullet]

AiLines ==
    {AiLine("Summary:", {"summary"}, "summary", FALSE),
     AiLine("Executive summary", {"summary"}, "", FALSE),
     AiLine("Recommendations:", {"recommendations"}, "recommendations", FALSE),
     AiLine("Post more video", {}, "", TRUE)}

\* what requests.post, raise_for_status and response.json() can yield
ResponseKinds == {"network_error", "http_error", "invalid_json", "malformed", "empty"}
Responses ==
    {[kind |-> k, lines |-> <<>>] : k \in ResponseKinds}
    \cup {[kind |-> "content", lines |-> l] :
             l \in UNION {[1..n -> AiLines] : n \in 1..MaxAiLines}}

\* one pass of the loop of lines 741-753; st.stripped tells that line 753,
\* the removal of the bullet, was run
parse_line(st, line) ==
    IF "summary" \in line.mentions /\ st.current_section = ""
    THEN [st EXCEPT !.current_section = "summary",
                    !.summary_parts = IF line.starts # "summary"
                                      THEN Append(@, line) ELSE @]
    ELSE IF "recommendations" \in line.mentions /\ st.current_section # "recommendations"
    THEN [st EXCEPT !.current_section = "recommendations",
                    !.recommendations_parts = IF line.starts # "recommendations"
                                              THEN Append(@, line) ELSE @]
    ELSE IF st.current_section = "summary"
    THEN [st EXCEPT !.summary_parts = Append(@, line)]
    ELSE IF st.current_section = "recommendations"
    THEN [st EXCEPT !.recommendations_parts = Append(@, [line EXCEPT !.bullet = FALSE]),
                    !.stripped = TRUE]
    ELSE st

RECURSIVE parse_lines(_, _)
parse_lines(st, lines) ==
    IF lines = <<>> THEN st ELSE parse_lines(parse_line(st, Head(lines)), Tail(lines))

parse_sections(lines) ==
    parse_lines([current_section |-> "", summary_parts |-> <<>>,
                 recommendations_parts |-> <<>>, stripped |-> FALSE], lines)

\* a text the handler stores: the kind of markup and the lines put into it
AiText(t, parts) == <<[t |-> t, parts |-> parts]>>

\* the outcome of a handler: the ai_error and the two texts it leaves
AiOutcome(error, summary, recommendations) ==
    [ai_error |-> error, ai_generated_summary |-> summary,
     ai_generated_recommendations |-> recommendations]
AiError(error) == AiOutcome(error, NoText, NoText)

\* lines 756-762
store_sections(lines, parsed) ==
    IF parsed.summary_parts = <<>> /\ parsed.recommendations_parts = <<>>
    THEN AiOutcome("", AiText("could_not_parse", <<>>), AiText("full_response", lines))
    ELSE AiOutcome("", AiText("summary", parsed.summary_parts),
                       AiText("recommendations", parsed.recommendations_parts))

\* an else branch of line 764 that also stores the empty text it received
empty_response_stored(response) ==
    {AiOutcome("empty_or_malformed", AiText("summary", <<>>), NoText)}

\* lines 764-765: the response has no choices or no content
empty_response(response) == {AiError("empty_or_malformed")}

\* lines 729-772: the outcomes of the try block after requests.post returned
\* or raised.  response.json() raises a JSONDecodeError that the installed
\* requests derives from RequestException, from json.JSONDecodeError or from
\* neither; a response of another shape raises KeyError or TypeError.  Line
\* 753 hands a regular expression literal to str.replace: where it is run it
\* faults (caught by line 771) or removes the bullet as was meant
handle_response(response) ==
    CASE response.kind \in {"network_error", "http_error"} -> {AiError("request_error")}
      [] response.kind = "invalid_json" ->
            {AiError("request_error"), AiError("invalid_json"), AiError("unexpected_error")}
      [] response.kind = "malformed" -> {AiError("unexpected_error")}
      [] response.kind = "empty" -> empty_response(response)
      [] response.kind = "content" ->
            LET parsed == parse_sections(response.lines) IN
            IF parsed.stripped
            THEN {AiError("unexpected_error"), store_sections(response.lines, parsed)}
            ELSE {store_sections(response.lines, parsed)}

\* a handler that clears the local text before it looks at the API key
OpenRouterHandler_clear_first ==
    /\ pc = "analysis"
    /\ button = "openrouter"
    /\ IF openrouter_api_key = ""
       THEN /\ ai_error' = "missing_key"
            /\ call' = [fn |-> "openrouter_handler",
                        arg |-> [summary_text |-> summary_text,
                                 recommendations_text |-> recommendations_text],
                        ret |-> Raise("missing_key")]
            /\ button' = ""
            /\ Rerun
            /\ summary_text' = NoText
            /\ recommendations_text' = NoText
            /\ UNCHANGED <<ai_generated_summary, ai_generated_recommendations,
                           requests_sent>>
       ELSE /\ ai_error' = ""
            /\ ai_generated_summary' = NoText
            /\ ai_generated_recommendations' = NoText
            /\ summary_text' = NoText
            /\ recommendations_text' = NoText
            /\ call' = [fn |-> "openrouter_handler",
                        arg |-> [summary_text |-> summary_text,
                                 recommendations_text |-> recommendations_text],
                        ret |-> None]
            /\ requests_sent' = requests_sent + 1
            /\ pc' = "ai_request"
            /\ UNCHANGED <<df, filters, filtered_data, shown, button>>
    /\ UNCHANGED <<uploaded_file, cleaned_data, openrouter_api_key>>

\* the button returned True in this run.  Without an API key the handler
\* sets ai_error and reruns (lines 671-673); with one it clears the texts of
\* the session (lines 675-679), builds the prompt and sends the request
\* (line 723).  call records the run of the handler: arg is the local text
\* that was in the session when the handler started, ret its outcome
OpenRouterHandler ==
    /\ pc = "analysis"
    /\ button = "openrouter"
    /\ IF openrouter_api_key = ""
       THEN /\ ai_error' = "missing_key"
            /\ call' = [fn |-> "openrouter_handler",
                        arg |-> [summary_text |-> summary_text,
                                 recommendations_text |-> recommendations_text],
                        ret |-> Raise("missing_key")]
            /\ button' = ""
            /\ Rerun
            /\ UNCHANGED <<summary_text, recommendations_text, ai_generated_summary,
                           ai_generated_recommendations, requests_sent>>
       ELSE /\ ai_error' = ""
            /\ ai_generated_summary' = NoText
            /\ ai_generated_recommendations' = NoText
            /\ summary_text' = NoText
            /\ recommendations_text' = NoText
            /\ call' = [fn |-> "openrouter_handler",
                        arg |-> [summary_text |-> summary_text,
                                 recommendations_text |-> recommendations_text],
                        ret |-> None]
            /\ requests_sent' = requests_sent + 1
            /\ pc' = "ai_request"
            /\ UNCHANGED <<df, filters, filtered_data, shown, button>>
    /\ UNCHANGED <<uploaded_file, cleaned_data, openrouter_api_key>>

\* requests.post returns or raises, the handler stores the outcome and
\* reruns the script (lines 729-773).  A field the outcome leaves at None
\* or "" is one the try block does not assign: it holds the None or "" of
\* lines 675-677
OpenRouterResponse ==
    /\ pc = "ai_request"
    /\ \E response \in Responses : \E outcome \in handle_response(response) :
          /\ ai_error' = outcome.ai_error
          /\ ai_generated_summary' = outcome.ai_generated_summary
          /\ ai_generated_recommendations' = outcome.ai_generated_recommendations
          /\ call' = [call EXCEPT !.ret = IF outcome.ai_error # ""
                                          THEN Raise(outcome.ai_error)
                                          ELSE Return(<<>>)]
    /\ button' = ""
    /\ Rerun
    /\ UNCHANGED <<uploaded_file, cleaned_data, summary_text, recommendations_text,
                   openrouter_api_key, requests_sent>>

----------------------------------------------------------------------------
(* SpecSession: a user who chooses and removes files, changes the filters *)
(* and the API key, and asks for the local and for the remote analysis    *)

MaxFileRows == 2       \* rows of an uploaded file

FileHeaders == {{"Date", "Engagements", "Platform"}, {"Engagements", "Platform"}}
FileRows == {[Date |-> d, Engagements |-> Num(7), Platform |-> "Twitter"] :
                d \in {Ts(0), Ts(MaxRawTs)}}

\* the widgets below the upload section were drawn by the last run
DashboardDrawn == cleaned_data # None /\ ~Empty(cleaned_data)

\* the user puts a file into the uploader: a malformed one or a table
UserSelectsFile ==
    /\ pc = "idle"
    /\ \/ uploaded_file' = [readable |-> FALSE, table |-> NoTable]
       \/ \E H \in FileHeaders : \E n \in 0..MaxFileRows :
             \E s \in [1..n -> {Restrict(r, H) : r \in FileRows}] :
                uploaded_file' = [readable |-> TRUE,
                                  table |-> [columns |-> H, rows |-> s]]
    /\ button' = ""
    /\ requests_sent' = 0
    /\ StartRun
    /\ UNCHANGED <<cleaned_data, summary_text, recommendations_text,
                   ai_generated_summary, ai_generated_recommendations, ai_error,
                   openrouter_api_key>>

\* the user takes the file out of the uploader
UserRemovesFile ==
    /\ pc = "idle"
    /\ uploaded_file # None
    /\ uploaded_file' = None
    /\ button' = ""
    /\ requests_sent' = 0
    /\ StartRun
    /\ UNCHANGED <<cleaned_data, summary_text, recommendations_text,
                   ai_generated_summary, ai_generated_recommendations, ai_error,
                   openrouter_api_key>>

\* the user changes a filter widget; the run reads the selection
UserChangesFilter ==
    /\ pc = "idle"
    /\ DashboardDrawn
    /\ button' = ""
    /\ requests_sent' = 0
    /\ StartRun
    /\ UNCHANGED <<uploaded_file, cleaned_data, summary_text, recommendations_text,
                   ai_generated_summary, ai_generated_recommendations, ai_error,
                   openrouter_api_key>>

\* the user clicks "Generate Analysis (Our Model)"
UserClicksOurModel ==
    /\ pc = "idle"
    /\ DashboardDrawn
    /\ button' = "our_model"
    /\ requests_sent' = 0
    /\ StartRun
    /\ UNCHANGED <<uploaded_file, cleaned_data, summary_text, recommendations_text,
                   ai_generated_summary, ai_generated_recommendations, ai_error,
                   openrouter_api_key>>

\* the user types into the "OpenRouter API Key" input; the run reads it
UserTypesApiKey ==
    /\ pc = "idle"
    /\ DashboardDrawn
    /\ button' = ""
    /\ requests_sent' = 0
    /\ StartRun
    /\ UNCHANGED <<uploaded_file, cleaned_data, summary_text, recommendations_text,
                   ai_generated_summary, ai_generated_recommendations, ai_error,
                   openrouter_api_key>>

\* the user clicks "Generate Analysis (OpenRouter AI)"
UserClicksOpenRouter ==
    /\ pc = "idle"
    /\ DashboardDrawn
    /\ button' = "openrouter"
    /\ requests_sent' = 0
    /\ StartRun
    /\ UNCHANGED <<uploaded_file, cleaned_data, summary_text, recommendations_text,
                   ai_generated_summary, ai_generated_recommendations, ai_error,
                   openrouter_api_key>>

InitSession ==
    /\ df = NoTable
    /\ call = NoCall
    /\ filters = NoFilters
    /\ filtered_data = NoTable
    /\ SessionIdle

NextSession ==
    \/ UserSelectsFile
    \/ UserRemovesFile
    \/ UserChangesFilter
    \/ UserClicksOurModel
    \/ UserTypesApiKey
    \/ UserClicksOpenRouter
    \/ UploadSection
    \/ FilterSection
    \/ OurModelHandler
    \/ OpenRouterHandler
    \/ OpenRouterResponse
    \/ DisplaySection

SpecSession == InitSession /\ [][NextSession]_vars

\* the positions of a script run
RunPositions == {"upload", "filter", "analysis", "ai_request"}

\* a step of a script run: the section at pc is enabled wherever pc stands
\* at it, and it moves pc on
RunAdvances ==
    /\ pc \in RunPositions
    /\ \E position \in (RunPositions \cup {"idle"}) \ {pc} : pc' = position

\* a script run that has started goes on to its end, and requests.post
\* returns or raises: the remote service or the network answers in the end
SpecSessionLive == SpecSession /\ WF_pc(RunAdvances)

----------------------------------------------------------------------------
(* Claims about the upload section *)

UploadRan == call.fn = "upload_section"
UploadFailed == UploadRan /\ call.ret.exc # ""
DatasetBeforeUpload == call.arg

\* C10 as stated: when an upload fails to parse or process, the failure is
\* shown to the user and cleaned_data is left exactly as it was before the
\* upload attempt.
C10_UploadFailureKeepsDataset ==
    UploadFailed => /\ "upload_error" \in shown
                    /\ cleaned_data = DatasetBeforeUpload

\* C10 as the code has it: when an upload fails to parse or process, the
\* failure is shown to the user and cleaned_data is None, whatever dataset
\* the session held before; no dataset, partial or not, is installed.
C10_UploadFailureClearsDataset ==
    UploadFailed => /\ "upload_error" \in shown
                    /\ "upload_success" \notin shown
                    /\ cleaned_data = None

\* a file without a Date column fails after a dataset had been loaded and
\* analysed: the dataset is gone, the texts of the analysis are still there
C10_Witness ==
    /\ UploadFailed
    /\ call.ret.exc = "KeyError"
    /\ DatasetBeforeUpload # None
    /\ Len(DatasetBeforeUpload.rows) = 2
    /\ summary_text # NoText
    /\ cleaned_data = None
    /\ "upload_error" \in shown

----------------------------------------------------------------------------
(* Claims about the OpenRouter handler *)

AiHandlerRan == call.fn = "openrouter_handler"
AiRequestFailed == AiHandlerRan /\ call.ret.exc \notin {"", "None", "missing_key"}
AiRequestSucceeded == AiHandlerRan /\ call.ret.exc = ""
LocalTextBefore == call.arg

\* C11: a remote request that fails (network error, non-success status,
\* malformed JSON or empty response) leaves summary_text and
\* recommendations_text as they were when the handler started.
C11_FailedRequestKeepsLocalText ==
    AiRequestFailed => /\ summary_text = LocalTextBefore.summary_text
                       /\ recommendations_text = LocalTextBefore.recommendations_text

\* what the code does instead: after a failed request the session holds no
\* local text, whatever it held before
C11_FailedRequestClearsLocalText ==
    AiRequestFailed => /\ summary_text = NoText
                       /\ recommendations_text = NoText
                       /\ ai_error # ""

----------------------------------------------------------------------------
(* Claims about generate_recommendations *)

RecommendationsCalled == call.fn = "generate_recommendations"

\* the bullets of the returned text whose sentence is one of types
BulletsOf(types) == SelectSeq(call.ret.value, LAMBDA b : b.t \in types)

\* the groups of a column and their engagement sums, computed from the rows
GroupsOf(col) ==
    IF col \in filtered_data.columns THEN Range(Column(filtered_data, col)) \ {NaN}
    ELSE {}
GroupTotal(col, g) ==
    LET rowsOf == SelectSeq(filtered_data.rows, LAMBDA r : r[col] = g)
    IN SumSeq([i \in 1..Len(rowsOf) |-> rowsOf[i]["engagements"]])
TopTotal(col) ==
    CHOOSE t \in {GroupTotal(col, g) : g \in GroupsOf(col)} :
        \A g \in GroupsOf(col) : GroupTotal(col, g) <= t
\* the largest sum among the groups other than one group that holds the top
SecondTotal(col) ==
    LET first == CHOOSE g \in GroupsOf(col) : GroupTotal(col, g) = TopTotal(col)
        others == GroupsOf(col) \ {first}
    IN CHOOSE t \in {GroupTotal(col, g) : g \in others} :
           \A g \in others : GroupTotal(col, g) <= t
Max(a, b) == IF a > b THEN a ELSE b

PlatformData ==
    /\ NonEmptyData
    /\ {"platform", "engagements"} \subseteq filtered_data.columns
    /\ GroupsOf("platform") # {}
PlatformRuleTriggers ==
    /\ Cardinality(GroupsOf("platform")) >= 2
    /\ TopTotal("platform") > 2 * Max(SecondTotal("platform"), 1)
PlatformBullets ==
    BulletsOf({"rec_platform_diversify", "rec_platform_optimize", "rec_platform_unavailable"})

\* C12: for a dataset with at least one platform, generate_recommendations
\* emits the diversification bullet naming the top two platforms iff
\* top / max(second, 1) > 2, top and second being the largest and the second
\* largest per-platform engagement sums; otherwise it emits the per-platform
\* optimization bullet.
C12_PlatformDiversification ==
    (RecommendationsCalled /\ PlatformData) =>
        /\ call.ret.exc = ""
        /\ Len(PlatformBullets) = 1
        /\ IF PlatformRuleTriggers
           THEN /\ PlatformBullets[1].t = "rec_platform_diversify"
                /\ PlatformBullets[1].a \in GroupsOf("platform")
                /\ PlatformBullets[1].b \in GroupsOf("platform") \ {PlatformBullets[1].a}
                /\ GroupTotal("platform", PlatformBullets[1].a) = TopTotal("platform")
                /\ GroupTotal("platform", PlatformBullets[1].b) = SecondTotal("platform")
           ELSE PlatformBullets[1] = Say("rec_platform_optimize")

\* the second platform has no engagement: the denominator is 1, the rule triggers
C12_Witness ==
    /\ RecommendationsCalled /\ PlatformData
    /\ Cardinality(GroupsOf("platform")) = 2
    /\ SecondTotal("platform") = 0
    /\ TopTotal("platform") > 2
    /\ PlatformBullets[1].t = "rec_platform_diversify"

\* the second platform has exactly half of the top: the rule does not trigger
C12_HalfWitness ==
    /\ RecommendationsCalled /\ PlatformData
    /\ Cardinality(GroupsOf("platform")) = 2
    /\ SecondTotal("platform") > 0
    /\ TopTotal("platform") = 2 * SecondTotal("platform")
    /\ PlatformBullets = <<Say("rec_platform_optimize")>>

MediaData == NonEmptyData /\ "media_type" \in filtered_data.columns
MediaBullets ==
    BulletsOf({"rec_media_diversify", "rec_media_analyze", "rec_media_unavailable"})
\* the rows that value_counts counts, and those of the most common type
CountedRows(col) == Count(Column(filtered_data, col))
TopCount(col) ==
    CHOOSE n \in {CountOf(Column(filtered_data, col), g) : g \in GroupsOf(col)} :
        \A g \in GroupsOf(col) : CountOf(Column(filtered_data, col), g) <= n
TopShareExceeds70 ==
    /\ GroupsOf("media_type") # {}
    /\ 10 * TopCount("media_type") > 7 * CountedRows("media_type")

\* C13: for every non-empty dataset with a media_type column,
\* generate_recommendations emits exactly one media type bullet: the
\* diversification bullet iff the share of the most common media type among
\* the counted rows exceeds 70%, the analyze bullet otherwise.
C13_MediaTypeRule ==
    (RecommendationsCalled /\ MediaData) =>
        /\ call.ret.exc = ""
        /\ Len(MediaBullets) = 1
        /\ IF TopShareExceeds70
           THEN /\ MediaBullets[1].t = "rec_media_diversify"
                /\ MediaBullets[1].a \in GroupsOf("media_type")
                /\ CountOf(Column(filtered_data, "media_type"), MediaBullets[1].a)
                      = TopCount("media_type")
           ELSE MediaBullets[1] = Say("rec_media_analyze")

\* the part of C13 the code keeps: with two or more media types in the data
C13_TwoOrMoreTypes ==
    Cardinality(GroupsOf("media_type")) >= 2 => C13_MediaTypeRule

\* three rows of one type and one of another: 75%, the rule triggers
C13_TwoOrMoreTypesWitness ==
    /\ RecommendationsCalled /\ MediaData
    /\ Cardinality(GroupsOf("media_type")) = 2
    /\ TopShareExceeds70
    /\ MediaBullets[1].t = "rec_media_diversify"

TrendData == NonEmptyData /\ TrendColumns
TrendBullets ==
    BulletsOf({"rec_trend_decline", "rec_trend_scale", "rec_trend_insufficient",
               "rec_trend_unavailable"})
\* the bullet of the rule: decline, scale, or else the message
TrendBulletByClass ==
    CASE Cardinality(DataDays) >= 2 /\ ExpectedTrend = "decreasing" -> Say("rec_trend_decline")
      [] Cardinality(DataDays) >= 2 /\ ExpectedTrend = "increasing" -> Say("rec_trend_scale")
      [] OTHER -> Say("rec_trend_insufficient")

\* C14 as stated: for every non-empty dataset with date and engagements
\* columns, generate_recommendations emits the decline bullet if last-day
\* total < first-day total x 0.9, the scale bullet if last-day total >
\* first-day total x 1.1, and in every other case, fewer than 2 days
\* included, a message that nothing is actionable or the data insufficient.
C14_TrendBulletAlways ==
    (RecommendationsCalled /\ TrendData) =>
        /\ call.ret.exc = ""
        /\ TrendBullets = <<TrendBulletByClass>>

\* C14 as the code has it: the decline bullet and the scale bullet as stated,
\* the insufficient-data message for a single day, and no trend bullet at all
\* for two or more days whose last total lies within 0.9 x and 1.1 x of the
\* first.
C14_TrendBulletUnlessStable ==
    (RecommendationsCalled /\ TrendData) =>
        /\ call.ret.exc = ""
        /\ TrendBullets = IF Cardinality(DataDays) >= 2 /\ ExpectedTrend = "stable"
                          THEN <<>>
                          ELSE <<TrendBulletByClass>>

\* two days with the same total: the text has the four other bullets only
C14_Witness ==
    /\ RecommendationsCalled /\ TrendData
    /\ Cardinality(DataDays) = 2
    /\ FirstDayTotal = LastDayTotal /\ FirstDayTotal > 0
    /\ TrendBullets = <<>>
    /\ Len(call.ret.value) = 5

SentimentData == NonEmptyData /\ "sentiment" \in filtered_data.columns
SentimentBullets ==
    BulletsOf({"rec_sentiment_management", "rec_sentiment_amplify",
               "rec_sentiment_maintain", "rec_sentiment_unavailable"})
RowsWithSentiment(x) ==
    Cardinality({i \in 1..Len(filtered_data.rows) : filtered_data.rows[i]["sentiment"] = x})
NonMissingSentiments == Len(filtered_data.rows) - RowsWithSentiment(NaN)
\* share of x exceeds / is below num / den of the non-missing values; a share is 0
\* when there is no non-missing value
ShareAbove(x, num, den) ==
    NonMissingSentiments > 0 /\ den * RowsWithSentiment(x) > num * NonMissingSentiments
ShareBelow(x, num, den) ==
    NonMissingSentiments = 0 \/ den * RowsWithSentiment(x) < num * NonMissingSentiments

\* C15: for every non-empty dataset with a sentiment column,
\* generate_recommendations emits exactly one sentiment bullet: proactive
\* sentiment management if the Negative share > 30% and the Positive share
\* < 50%; else amplifying positive content if the Positive share > 70%; else
\* maintaining quality.  Shares are over the non-missing sentiment values and
\* are 0 when there is none.
C15_SentimentPriority ==
    (RecommendationsCalled /\ SentimentData) =>
        /\ call.ret.exc = ""
        /\ SentimentBullets =
              <<Say(IF ShareAbove("Negative", 3, 10) /\ ShareBelow("Positive", 5, 10)
                    THEN "rec_sentiment_management"
                    ELSE IF ShareAbove("Positive", 7, 10) THEN "rec_sentiment_amplify"
                    ELSE "rec_sentiment_maintain")>>

\* half Negative, half Positive: the Negative share exceeds 30% but the
\* Positive share is not below 50%, the bullet is the maintaining one
C15_Witness ==
    /\ RecommendationsCalled /\ SentimentData
    /\ NonMissingSentiments = 4
    /\ RowsWithSentiment("Negative") = 2
    /\ RowsWithSentiment("Positive") = 2
    /\ SentimentBullets = <<Say("rec_sentiment_maintain")>>

\* no sentiment value at all: both shares are 0
C15_NoValueWitness ==
    /\ RecommendationsCalled /\ SentimentData
    /\ NonMissingSentiments = 0
    /\ SentimentBullets = <<Say("rec_sentiment_maintain")>>

LocationData == NonEmptyData /\ {"location", "engagements"} \subseteq filtered_data.columns
LocationBullets ==
    BulletsOf({"rec_location_campaign", "rec_location_analyze", "rec_location_unavailable"})
GrandTotal == SumSeq(Column(filtered_data, "engagements"))
TopLocationExceedsHalf ==
    GroupsOf("location") # {} /\ 2 * TopTotal("location") > GrandTotal

\* C16: for every non-empty dataset with location and engagements columns,
\* generate_recommendations returns a text with the campaign bullet naming
\* the top location iff that location's engagement sum exceeds 50% of the
\* grand total, and with the analyze bullet otherwise, a grand total of 0
\* included.
C16_LocationRule ==
    (RecommendationsCalled /\ LocationData) =>
        /\ call.ret.exc = ""
        /\ Len(LocationBullets) = 1
        /\ IF TopLocationExceedsHalf
           THEN /\ LocationBullets[1].t = "rec_location_campaign"
                /\ LocationBullets[1].a \in GroupsOf("location")
                /\ GroupTotal("location", LocationBullets[1].a) = TopTotal("location")
           ELSE LocationBullets[1] = Say("rec_location_analyze")

\* the part of C16 the code keeps: the location column holds a value
C16_WithLocationValue == GroupsOf("location") # {} => C16_LocationRule

\* locations without any engagement: the share is 0 / 0, the text is
\* returned with the analyze bullet
C16_ZeroTotalWitness ==
    /\ RecommendationsCalled /\ LocationData
    /\ Cardinality(GroupsOf("location")) = 2
    /\ GrandTotal = 0
    /\ call.ret.exc = ""
    /\ LocationBullets = <<Say("rec_location_analyze")>>

----------------------------------------------------------------------------
(* Claims about the outcome of the OpenRouter handler *)

AiHandlerFinished == AiHandlerRan /\ call.ret.exc \notin {"None", "missing_key"}
AiSuccessState ==
    /\ ai_generated_summary # NoText
    /\ ai_generated_recommendations # NoText
    /\ ai_error = ""
AiErrorState ==
    /\ ai_error # ""
    /\ ai_generated_summary = NoText
    /\ ai_generated_recommendations = NoText
AiClickedWithKey == button = "openrouter" /\ openrouter_api_key # "" /\ pc = "upload"

C17_OneOutcome ==
    /\ AiHandlerFinished => (AiSuccessState /\ call.ret.exc = "")
                            \/ (AiErrorState /\ call.ret.exc # "")
    /\ requests_sent <= 1

----------------------------------------------------------------------------
(* Claims about the trend bullet of generate_summary (SpecGen) *)

SummaryCalled == call.fn = "generate_summary"
SummaryTrendBullets ==
    BulletsOf({"summary_trend", "summary_trend_single_day",
               "summary_trend_undetermined", "summary_trend_unavailable"})

\* the class generate_insights(data, 'engagement_trend') names in a result
InsightsTrendClasses(findings) ==
    {CASE findings[i].t = "trend_increasing" -> "increasing"
       [] findings[i].t = "trend_decreasing" -> "decreasing"
       [] OTHER -> "stable" :
     i \in {j \in DOMAIN findings :
               findings[j].t \in {"trend_increasing", "trend_decreasing",
                                  "trend_stable"}}}

C18_SingleDayWitness ==
    /\ SummaryCalled /\ TrendData
    /\ Cardinality(DataDays) = 1
    /\ Len(filtered_data.rows) = 2
    /\ SummaryTrendBullets[1].t = "summary_trend_single_day"
    /\ SummaryTrendBullets[1].n = 20

\* the bullet of the third case is in no summary of a cleaned dataset: a
\* dataset without a day is empty, and generate_summary returns before it
C18_UndeterminedNotEmitted ==
    SummaryCalled => SummaryTrendBullets \in {<<>>, <<Say("summary_trend_unavailable")>>}
                     \/ SummaryTrendBullets[1].t # "summary_trend_undetermined"

----------------------------------------------------------------------------
(* Claims about the filtered dataset (SpecFilter) *)

EqualityFilters == {"platform", "sentiment", "media_type", "location"}

\* the row satisfies every selected equality predicate and its date lies in
\* the inclusive range of the two dates
SatisfiesFilters(r, f) ==
    /\ \A col \in EqualityFilters : f[col] # "All" => r[col] = f[col]
    /\ f.start_date <= Day(r["date"])
    /\ Day(r["date"]) <= f.end_date

\* C19: the filtered dataset has the columns of the cleaned dataset and, in
\* their original order, exactly its rows that satisfy every selected equality
\* predicate ('All' imposes none) and whose date lies in the inclusive range
\* [start_date, end_date].
C19_FilteredSubsequence ==
    Filtered =>
        /\ filtered_data.columns = cleaned_data.columns
        /\ filtered_data.rows =
              SelectSeq(cleaned_data.rows, LAMBDA r : SatisfiesFilters(r, filters))

\* a platform selected and the range narrowed to the last day: the row of
\* another platform goes, the row later than midnight of the end date stays
C19_Witness ==
    /\ Filtered
    /\ Len(cleaned_data.rows) = 2
    /\ filters.platform = "Twitter"
    /\ filters.start_date = filters.end_date
    /\ cleaned_data.rows[1]["platform"] = NaN
    /\ Day(cleaned_data.rows[1]["date"]) = filters.end_date
    /\ Day(cleaned_data.rows[2]["date"]) = filters.end_date
    /\ cleaned_data.rows[2]["date"] % SlotsPerDay # 0
    /\ filtered_data.rows = <<cleaned_data.rows[2]>>

\* both rows kept, in the order of the cleaned dataset
C19_OrderWitness ==
    /\ Filtered
    /\ filters.platform = "Twitter"
    /\ Len(filtered_data.rows) = 2
    /\ filtered_data.rows[1]["date"] < filtered_data.rows[2]["date"]

----------------------------------------------------------------------------
(* Claims about generate_insights(data, 'platform_engagements') (SpecGen) *)

PlatformColumns == {"platform", "engagements"} \subseteq filtered_data.columns
PlatformFindings(types) == SelectSeq(call.ret.value, LAMBDA b : b.t \in types)
LowestTotal(col) ==
    CHOOSE t \in {GroupTotal(col, g) : g \in GroupsOf(col)} :
        \A g \in GroupsOf(col) : GroupTotal(col, g) >= t

\* the findings of the claim: the leading platform and its sum, the gap from
\* two platforms on, the lowest platform from three platforms on
PlatformFindingsAsClaimed ==
    /\ call.ret.exc = ""
    /\ LET leading == PlatformFindings({"leading_platform"})
           gap == PlatformFindings({"platform_gap"})
           lowest == PlatformFindings({"lowest_platform"})
       IN /\ Len(leading) = 1
          /\ leading[1].a \in GroupsOf("platform")
          /\ GroupTotal("platform", leading[1].a) = TopTotal("platform")
          /\ leading[1].n = TopTotal("platform")
          /\ IF Cardinality(GroupsOf("platform")) >= 2
             THEN gap = <<Msg("platform_gap", "", "",
                              TopTotal("platform") - SecondTotal("platform"))>>
             ELSE gap = <<>>
          /\ IF Cardinality(GroupsOf("platform")) >= 3
             THEN /\ Len(lowest) = 1
                  /\ lowest[1].a \in GroupsOf("platform")
                  /\ GroupTotal("platform", lowest[1].a) = LowestTotal("platform")
             ELSE lowest = <<>>
          /\ Len(call.ret.value) = Len(leading) + Len(gap) + Len(lowest)

\* C20 as stated: for every non-empty dataset with platform and engagements
\* columns, the platform findings name the platform with the largest
\* engagement sum and that sum, the gap between rank 1 and rank 2 iff there
\* are 2 or more platforms, and the lowest-ranked platform iff there are 3 or
\* more.
C20_PlatformInsights ==
    (InsightsCalled("platform_engagements") /\ NonEmptyData /\ PlatformColumns) =>
        PlatformFindingsAsClaimed

\* C20 as the code has it: the same where a row names a platform; where none
\* does, the one finding of the else branch (line 116).
C20_PlatformInsightsOrNone ==
    (InsightsCalled("platform_engagements") /\ NonEmptyData /\ PlatformColumns) =>
        IF GroupsOf("platform") # {}
        THEN PlatformFindingsAsClaimed
        ELSE call.ret = Return(<<Say("limited_platform_diversity")>>)

\* exactly two platforms: the gap and no lowest platform
C20_Witness ==
    /\ InsightsCalled("platform_engagements") /\ NonEmptyData /\ PlatformColumns
    /\ Cardinality(GroupsOf("platform")) = 2
    /\ Len(filtered_data.rows) = 3
    /\ TopTotal("platform") = 20
    /\ call.ret.value = <<Msg("leading_platform", "Twitter", "", 20),
                          Msg("platform_gap", "", "", 10)>>

\* three platforms: the lowest one is named
C20_ThreeWitness ==
    /\ InsightsCalled("platform_engagements") /\ PlatformColumns
    /\ Cardinality(GroupsOf("platform")) = 3
    /\ Len(call.ret.value) = 3
    /\ call.ret.value[1].n = 10
    /\ call.ret.value[3].t = "lowest_platform"

\* rows, none with a platform
C20_NoneWitness ==
    /\ InsightsCalled("platform_engagements") /\ NonEmptyData /\ PlatformColumns
    /\ GroupsOf("platform") = {}
    /\ Len(filtered_data.rows) = 2

----------------------------------------------------------------------------
(* Claims about generate_insights(data, 'top_locations') (SpecGen) *)

RECURSIVE TopNTotal(_, _, _)
\* the sum of the n largest engagement sums among groups of column col
TopNTotal(col, groups, n) ==
    IF n = 0 \/ groups = {} THEN 0
    ELSE LET g == CHOOSE x \in groups :
                     \A y \in groups : GroupTotal(col, y) <= GroupTotal(col, x)
         IN GroupTotal(col, g) + TopNTotal(col, groups \ {g}, n - 1)

\* first, second and third are the head of a descending ranking of the groups
RankedFirst(col, first, second, third) ==
    /\ {first, second, third} \subseteq GroupsOf(col)
    /\ first # second /\ first # third
    /\ GroupTotal(col, first) >= GroupTotal(col, second)
    /\ GroupTotal(col, second) >= GroupTotal(col, third)
    /\ \A g \in GroupsOf(col) \ {first, second, third} :
          GroupTotal(col, g) <= GroupTotal(col, third)

\* the findings on the top location and on the other notable locations
TopAndOtherLocations ==
    LET top == BulletsOf({"top_location"})
        other == BulletsOf({"other_locations"})
    IN /\ Len(top) = 1
       /\ top[1].a \in GroupsOf("location")
       /\ top[1].n = TopTotal("location")
       /\ GroupTotal("location", top[1].a) = TopTotal("location")
       /\ IF Cardinality(GroupsOf("location")) >= 2
          THEN /\ Len(other) = 1
               /\ RankedFirst("location", top[1].a, other[1].a, other[1].b)
               /\ (other[1].a = other[1].b) <=> Cardinality(GroupsOf("location")) = 2
          ELSE other = <<>>

\* the finding on the share of the top 5 locations in the grand total
Top5Share ==
    LET share == BulletsOf({"top_5_share"})
    IN /\ Len(share) = 1
       /\ GrandTotal > 0 =>
             share[1].n = Pct1(TopNTotal("location", GroupsOf("location"), 5), GrandTotal)

\* C21 as stated: for every non-empty dataset with location and engagements
\* columns, the findings name the top location and its total, always give
\* the share of the top 5 locations in the grand total and, iff there are 2
\* or more locations, name the 2nd location with the 3rd (the 2nd again when
\* there is no 3rd).
C21_TopLocationsAlwaysShare ==
    (InsightsCalled("top_locations") /\ LocationData) =>
        /\ call.ret.exc = ""
        /\ TopAndOtherLocations
        /\ Top5Share
        /\ Len(call.ret.value) = 2 + Len(BulletsOf({"other_locations"}))

\* C21 as the code has it: the share is given iff the grand total is
\* positive, and a dataset in which no row has a location gets the one
\* finding of the else branch (line 155).
C21_TopLocationsShareIfPositive ==
    (InsightsCalled("top_locations") /\ LocationData) =>
        /\ call.ret.exc = ""
        /\ IF GroupsOf("location") = {}
           THEN call.ret.value = <<Say("limited_location_data")>>
           ELSE /\ TopAndOtherLocations
                /\ IF GrandTotal > 0 THEN Top5Share ELSE BulletsOf({"top_5_share"}) = <<>>
                /\ Len(call.ret.value) =
                      1 + Len(BulletsOf({"top_5_share"})) + Len(BulletsOf({"other_locations"}))

\* more than five locations, the sixth with engagements of its own: the share
\* is below 100%
C21_Witness ==
    /\ InsightsCalled("top_locations") /\ LocationData
    /\ Cardinality(GroupsOf("location")) > 5
    /\ Len(call.ret.value) = 3
    /\ call.ret.value[2].t = "top_5_share"
    /\ call.ret.value[2].n < 1000
    /\ call.ret.value[3].a # call.ret.value[3].b

\* two locations: the second is named twice
C21_TwoWitness ==
    /\ InsightsCalled("top_locations") /\ LocationData
    /\ Cardinality(GroupsOf("location")) = 2
    /\ Len(call.ret.value) = 3
    /\ call.ret.value[3].a = call.ret.value[3].b

\* engagements of 0 in every row: the top location and no share
C21_ZeroTotalWitness ==
    /\ InsightsCalled("top_locations") /\ LocationData
    /\ GroupsOf("location") # {}
    /\ GrandTotal = 0
    /\ Len(call.ret.value) = 1
    /\ call.ret.value[1].t = "top_location"

----------------------------------------------------------------------------
(* Claims about the ranking of groups with equal values (SpecGen) *)

\* the first row of the dataset that holds group g in column col
FirstRowOf(col, g) ==
    CHOOSE i \in 1..Len(filtered_data.rows) :
        /\ filtered_data.rows[i][col] = g
        /\ \A j \in 1..(i - 1) : filtered_data.rows[j][col] # g

GroupCount(col, g) == CountIn(Column(filtered_data, col), g)

\* among the groups with the largest engagement sum (the largest count), the
\* one met first in the dataset
StableTopBySum(col) ==
    CHOOSE g \in GroupsOf(col) :
        /\ GroupTotal(col, g) = TopTotal(col)
        /\ \A h \in GroupsOf(col) :
              GroupTotal(col, h) = TopTotal(col) => FirstRowOf(col, g) <= FirstRowOf(col, h)
StableTopByCount(col) ==
    CHOOSE g \in GroupsOf(col) :
        \A h \in GroupsOf(col) :
           \/ GroupCount(col, h) < GroupCount(col, g)
           \/ /\ GroupCount(col, h) = GroupCount(col, g)
              /\ FirstRowOf(col, g) <= FirstRowOf(col, h)

\* the group a ranking of generate_insights reports as its top
ReportedTop(types) == BulletsOf(types)[1].a

\* C22: where generate_insights ranks groups by value descending (platform
\* and location engagement sums, sentiment and media type counts), the group
\* reported as top among groups with equal values is the one whose first row
\* comes earliest in the dataset.
C22_StableRanking ==
    (NonEmptyData /\ call.fn = "generate_insights" /\ call.ret.exc = "") =>
        /\ (call.arg = "platform_engagements" /\ PlatformColumns
                /\ GroupsOf("platform") # {}) =>
              ReportedTop({"leading_platform"}) = StableTopBySum("platform")
        /\ (call.arg = "top_locations" /\ LocationData /\ GroupsOf("location") # {}) =>
              ReportedTop({"top_location"}) = StableTopBySum("location")
        /\ (call.arg = "sentiment" /\ GroupsOf("sentiment") # {}) =>
              ReportedTop({"dominant_sentiment"}) = StableTopByCount("sentiment")
        /\ (call.arg = "media_type" /\ GroupsOf("media_type") # {}) =>
              ReportedTop({"top_media_type"}) = StableTopByCount("media_type")

\* what the rankings do keep: the group reported as top is one of those with
\* the largest value
C22_TopAmongLargest ==
    (NonEmptyData /\ call.fn = "generate_insights" /\ call.ret.exc = "") =>
        /\ (call.arg = "platform_engagements" /\ PlatformColumns
                /\ GroupsOf("platform") # {}) =>
              GroupTotal("platform", ReportedTop({"leading_platform"})) = TopTotal("platform")
        /\ (call.arg = "top_locations" /\ LocationData /\ GroupsOf("location") # {}) =>
              GroupTotal("location", ReportedTop({"top_location"})) = TopTotal("location")
        /\ (call.arg = "sentiment" /\ GroupsOf("sentiment") # {}) =>
              \A h \in GroupsOf("sentiment") :
                 GroupCount("sentiment", h)
                    <= GroupCount("sentiment", ReportedTop({"dominant_sentiment"}))
        /\ (call.arg = "media_type" /\ GroupsOf("media_type") # {}) =>
              \A h \in GroupsOf("media_type") :
                 GroupCount("media_type", h)
                    <= GroupCount("media_type", ReportedTop({"top_media_type"}))

\* two platforms with equal sums, the one met second reported as leading
C22_TieWitness ==
    /\ InsightsCalled("platform_engagements") /\ NonEmptyData /\ PlatformColumns
    /\ Cardinality(GroupsOf("platform")) = 2
    /\ TopTotal("platform") = SecondTotal("platform")
    /\ ReportedTop({"leading_platform"}) # StableTopBySum("platform")

----------------------------------------------------------------------------
(* Claims about the rerun a handler triggers (SpecSession) *)

\* the run at its first line is the rerun a 'Generate Analysis' handler
\* asked for
HandlerRerun ==
    /\ pc = "upload"
    /\ call.fn \in {"our_model_handler", "openrouter_handler"}

\* what the handlers store in the session
HandlerResult ==
    [summary_text |-> summary_text, recommendations_text |-> recommendations_text,
     ai_generated_summary |-> ai_generated_summary,
     ai_generated_recommendations |-> ai_generated_recommendations,
     ai_error |-> ai_error]
NoResult ==
    [summary_text |-> NoText, recommendations_text |-> NoText,
     ai_generated_summary |-> NoText, ai_generated_recommendations |-> NoText,
     ai_error |-> ""]

\* the run has reached the lines below the two buttons with no button clicked
AtDisplay == pc = "analysis" /\ button = ""

\* C23: the result a 'Generate Analysis' handler stored (local text, AI text
\* or ai_error) is kept by the upload section of the rerun the handler
\* triggered while the file is still in the uploader, and the run that
\* reaches the display section displays what the session holds.
C23_ResultDisplayedAfterRerun ==
    [][/\ (HandlerRerun /\ uploaded_file # None) => HandlerResult' = HandlerResult
       /\ AtDisplay => Displayed \subseteq shown']_vars

\* what the code does with a file in the uploader that loads: the upload
\* section of the rerun clears the result, and the run reaches the display
\* section with none
C23_RerunWithFileClearsResult ==
    [][(HandlerRerun /\ uploaded_file # None /\ "upload_success" \in shown') =>
          HandlerResult' = NoResult]_vars

\* no run displays a text or an error of the analysis
C23_NothingDisplayed ==
    shown \subseteq {"upload_success", "upload_error", "ValueError"}

\* a result is in the session after a run that reached the display section
C23_KeptNotDisplayedWitness ==
    /\ pc = "idle"
    /\ DashboardDrawn
    /\ summary_text # NoText
    /\ "ValueError" \in shown

----------------------------------------------------------------------------
(* Claims about the texts of the session (SpecSession) *)

LocalTextPresent == summary_text # NoText \/ recommendations_text # NoText
AiTextPresent == ai_generated_summary # NoText \/ ai_generated_recommendations # NoText

\* C24: in every reachable state of the session the local text
\* (summary_text, recommendations_text) and the AI text (ai_generated_summary,
\* ai_generated_recommendations) are not both present.
C24_LocalAndAiTextExclusive == ~(LocalTextPresent /\ AiTextPresent)

\* the AI answered in a session that held local text
C24_Witness ==
    /\ AiRequestSucceeded
    /\ LocalTextBefore.summary_text # NoText
    /\ AiTextPresent
    /\ ~LocalTextPresent

----------------------------------------------------------------------------
(* Claims about the OpenRouter handler without an API key (SpecSession) *)

ClickedWithoutKey == pc = "analysis" /\ button = "openrouter" /\ openrouter_api_key = ""

\* C25: the handler of 'Generate Analysis (OpenRouter AI)' run with an empty
\* API key sends no request and sets ai_error to the missing-key message;
\* summary_text, recommendations_text, ai_generated_summary and
\* ai_generated_recommendations, the dataset and the key are as they were.
C25_MissingKeyOnlySetsError ==
    [][ClickedWithoutKey =>
          /\ ai_error' = "missing_key"
          /\ requests_sent' = requests_sent
          /\ pc' = "upload"
          /\ UNCHANGED <<summary_text, recommendations_text, ai_generated_summary,
                         ai_generated_recommendations, cleaned_data,
                         openrouter_api_key, uploaded_file>>]_vars

\* the handler has run without a key in a session that holds local text
C25_Witness ==
    /\ AiHandlerRan
    /\ call.ret.exc = "missing_key"
    /\ pc = "upload"
    /\ ai_error = "missing_key"
    /\ requests_sent = 0
    /\ summary_text # NoText
    /\ summary_text = LocalTextBefore.summary_text

----------------------------------------------------------------------------
(* Claims about the number of findings of generate_insights (SpecGen) *)

InsightsReturnedFor ==
    /\ call.fn = "generate_insights"
    /\ NonEmptyData
    /\ Required(call.arg) \subseteq filtered_data.columns

\* C26: for every non-empty dataset with the columns the category requires,
\* and for each of the five categories, generate_insights returns at least 1
\* and at most 3 findings, a column of missing values included.
C26_OneToThreeFindings ==
    InsightsReturnedFor =>
        /\ call.ret.exc = ""
        /\ Len(call.ret.value) \in 1..3

\* what the code keeps: never more than 3 findings, and at least 1 except
\* for the sentiment category on a column without a value, which gets none
C26_NoneForSentimentWithoutValue ==
    InsightsReturnedFor =>
        /\ call.ret.exc = ""
        /\ Len(call.ret.value) <= 3
        /\ (Len(call.ret.value) = 0) <=>
              (call.arg = "sentiment" /\ GroupsOf("sentiment") = {})

\* two rows, neither with a sentiment: no finding
C26_EmptyListWitness ==
    /\ InsightsCalled("sentiment") /\ NonEmptyData
    /\ Len(filtered_data.rows) = 2
    /\ "sentiment" \in filtered_data.columns
    /\ GroupsOf("sentiment") = {}
    /\ call.ret = Return(<<>>)

====
